---------------------------- MODULE Spec2Model ----------------------------
(* A model of render-html: the template compiler (html), the fragment      *)
(* materializer and incremental renderer (render) over a small DOM heap.   *)
(* Strings are TLA+ strings; a character is a string of length one.        *)
EXTENDS Integers, Sequences, FiniteSets, TLC

VARIABLES
    templateCache,     \* html.ts (token based): strings array -> compiled entry
    compileCount,      \* ghost: how often createTemplateCacheEntry ran per strings array
    results,           \* ghost: the TemplateResults returned by html, in call order
    segment,           \* classification input: a static segment under construction
    segmentMeta,       \* the descriptor createTemplateCacheEntry gives the slot after it
    dom,               \* the DOM heap: node id -> node record
    pathTemplateCache, \* html.ts (path based): strings array -> {template, partMeta}
    nodeInstanceCache, \* render.ts: container node -> NodeInstance
    calls,             \* ghost: the TemplateResults passed to render, in call order
    thrown,            \* the exception the last render call ended with ("" if none)
    domLog,            \* ghost: the writes of the last render call, in order
    shown,             \* ghost: what the container showed after each render call
    tree,              \* the tree handed to the serializer: its heap and its shadow roots
    serialized,        \* ghost: the last serializeHTMLfragment call and what it returned
    stringRendered,    \* ghost: the last renderToString call, its steps and what it returned
    customElements,    \* self.customElements: the global custom element registry
    elementRendered    \* ghost: the renderToString calls with options: how many, the last one

vars == <<templateCache, compileCount, results, segment, segmentMeta, dom,
          pathTemplateCache, nodeInstanceCache, calls, thrown, domLog, shown,
          tree, serialized, stringRendered, customElements, elementRendered>>

htmlVars == <<templateCache, compileCount, results>>
classifyVars == <<segment, segmentMeta>>
renderVars == <<dom, pathTemplateCache, nodeInstanceCache, calls, thrown, domLog, shown>>
serializeVars == <<tree, serialized>>
stringVars == <<stringRendered>>
elementVars == <<customElements, elementRendered>>

-----------------------------------------------------------------------------
(* Bounds *)

MaxHtmlCalls == 3
MaxSegmentLen == 5
MaxRenders == 3
MaxNodes == 4
MaxDataLen == 2
MaxAttributes == 2
MaxStringCalls == 3

-----------------------------------------------------------------------------
(* Strings *)

Ch(s, i) == SubSeq(s, i, i)

Last(q) == q[Len(q)]

RECURSIVE SeqSum(_)
SeqSum(q) == IF q = <<>> THEN 0 ELSE Head(q) + SeqSum(Tail(q))

\* String.prototype.slice(from) with a 0-based start
Slice(s, from) == SubSeq(s, from + 1, Len(s))

StartsWithAt(s, i, p) == i + Len(p) - 1 <= Len(s) /\ SubSeq(s, i, i + Len(p) - 1) = p

\* the first index j >= i where p starts in s, or 0
RECURSIVE IndexOfFrom(_, _, _)
IndexOfFrom(s, p, i) ==
    IF i + Len(p) - 1 > Len(s) THEN 0
    ELSE IF StartsWithAt(s, i, p) THEN i
    ELSE IndexOfFrom(s, p, i + 1)

\* JavaScript's \s, restricted to the characters templates use here
IsSpace(c) == c \in {" ", "\n", "\t"}

IsQuote(c) == c \in {"\"", "'"}

UpperChars == "ABCDEFGHIJKLMNOPQRSTUVWXYZ"
LowerChars == "abcdefghijklmnopqrstuvwxyz"
DigitChars == "0123456789"

\* JavaScript's \w
IsWordChar(c) ==
    \/ c = "_"
    \/ \E i \in 1..Len(LowerChars) : Ch(LowerChars, i) = c \/ Ch(UpperChars, i) = c
    \/ \E i \in 1..Len(DigitChars) : Ch(DigitChars, i) = c

LowerChar(c) ==
    IF \E i \in 1..Len(UpperChars) : Ch(UpperChars, i) = c
    THEN Ch(LowerChars, CHOOSE i \in 1..Len(UpperChars) : Ch(UpperChars, i) = c)
    ELSE c

\* String.prototype.toLowerCase
RECURSIVE toLowerCase(_)
toLowerCase(s) == IF s = "" THEN "" ELSE LowerChar(Head(s)) \o toLowerCase(Tail(s))

\* String.prototype.trim
RECURSIVE TrimStart(_)
TrimStart(s) == IF s # "" /\ IsSpace(Head(s)) THEN TrimStart(Tail(s)) ELSE s
RECURSIVE TrimEnd(_)
TrimEnd(s) ==
    IF s # "" /\ IsSpace(Ch(s, Len(s))) THEN TrimEnd(SubSeq(s, 1, Len(s) - 1)) ELSE s
trim(s) == TrimEnd(TrimStart(s))

\* Array.prototype.join('')
RECURSIVE join(_)
join(chunks) == IF chunks = <<>> THEN "" ELSE Head(chunks) \o join(Tail(chunks))

-----------------------------------------------------------------------------
(* html.ts, token based: the template compiler *)

\* the call sites of the program: one static-strings array each; the index is
\* the array's identity (2 and 3 hold the same text in two call sites)
TemplateStrings ==
    << <<"<p>hi</p>">>,
       <<"<div>", "</div>">>,
       <<"<div>", "</div>">>,
       <<"<button onClick=\"", "\" id=\"", "\">", "</button>">>,
       <<"<p>", "</p><p>", "</p>">> >>

\* the character class [^\s=>\/] of reIsAttribute
IsAttrNameChar(c) == ~IsSpace(c) /\ c \notin {"=", ">", "/"}

\* the end of the greedy run [^\s=>\/]+ that starts at i
RECURSIVE NameRunEnd(_, _)
NameRunEnd(s, i) ==
    IF i < Len(s) /\ IsAttrNameChar(Ch(s, i + 1)) THEN NameRunEnd(s, i + 1) ELSE i

\* \s* from i: the first index at or after i that holds no white space
RECURSIVE SkipSpaces(_, _)
SkipSpaces(s, i) ==
    IF i <= Len(s) /\ IsSpace(Ch(s, i)) THEN SkipSpaces(s, i + 1) ELSE i

\* [^'"]*$ from i
NoQuoteFrom(s, i) == \A j \in i..Len(s) : ~IsQuote(Ch(s, j))

\* whether /([^\s=>\/]+)\s*=\s*(['"])?[^'"]*$/ matches with the match starting at i
AttributeMatchesAt(s, i) ==
    /\ IsAttrNameChar(Ch(s, i))
    /\ LET e == SkipSpaces(s, NameRunEnd(s, i) + 1) IN
       /\ e <= Len(s)
       /\ Ch(s, e) = "="
       /\ LET v == SkipSpaces(s, e + 1) IN
          IF v <= Len(s) /\ IsQuote(Ch(s, v)) THEN NoQuoteFrom(s, v + 1)
          ELSE NoQuoteFrom(s, v)

\* templateItem.match(reIsAttribute): group 1 of the leftmost match, "" for null
reIsAttributeUnanchoredTail(s) ==
    LET starts == {i \in 1..Len(s) :
                     /\ IsAttrNameChar(Ch(s, i))
                     /\ LET e == SkipSpaces(s, NameRunEnd(s, i) + 1) IN
                        e <= Len(s) /\ Ch(s, e) = "="}
    IN  IF starts = {} THEN ""
        ELSE LET i == CHOOSE x \in starts : \A y \in starts : x <= y
             IN  SubSeq(s, i, NameRunEnd(s, i))

reIsAttribute(s) ==
    LET starts == {i \in 1..Len(s) : AttributeMatchesAt(s, i)}
    IN  IF starts = {} THEN ""
        ELSE LET i == CHOOSE x \in starts : \A y \in starts : x <= y
             IN  SubSeq(s, i, NameRunEnd(s, i))

\* /^on\w+$/i .test(name)
reIsEvent(name) ==
    /\ Len(name) >= 3
    /\ toLowerCase(SubSeq(name, 1, 2)) = "on"
    /\ \A i \in 3..Len(name) : IsWordChar(Ch(name, i))

PartMeta(type, attr, event, placeholder, index) ==
    [type |-> type, attr |-> attr, event |-> event,
     substitutionPlaceholder |-> placeholder, substitutionIndex |-> index]

slotMetaUnanchored(templateItem, index) ==
    LET attrName == reIsAttributeUnanchoredTail(templateItem) IN
    IF attrName # ""
    THEN IF reIsEvent(attrName)
         THEN PartMeta("event", "", toLowerCase(Slice(attrName, 2)),
                       "<!--$event-" \o ToString(index) \o "$-->", index)
         ELSE PartMeta("attr", attrName, "",
                       "<!--$attr-" \o ToString(index) \o "$-->", index)
    ELSE PartMeta("text", "", "", "<!--$text-" \o ToString(index) \o "$-->", index)

\* the descriptor of the slot that follows templateItem (index is 0-based)
slotMeta(templateItem, index) ==
    LET attrName == reIsAttribute(templateItem) IN
    IF attrName # ""
    THEN IF reIsEvent(attrName)
         THEN PartMeta("event", "", toLowerCase(Slice(attrName, 2)),
                       "<!--$event-" \o ToString(index) \o "$-->", index)
         ELSE PartMeta("attr", attrName, "",
                       "<!--$attr-" \o ToString(index) \o "$-->", index)
    ELSE PartMeta("text", "", "", "<!--$text-" \o ToString(index) \o "$-->", index)

createTemplateCacheEntrySharedToken(templateStrings) ==
    LET n == Len(templateStrings)
        meta == [k \in 1..(n - 1) |->
                    LET part == slotMeta(templateStrings[k], k - 1) IN
                    [part EXCEPT
                        !.substitutionPlaceholder = "<!--$" \o part.type \o "$-->"]]
        htmlChunks == [k \in 1..(2 * n - 1) |->
                          IF k % 2 = 1 THEN templateStrings[(k + 1) \div 2]
                          ELSE meta[k \div 2].substitutionPlaceholder]
    IN  [partMeta |-> meta,
         templateStrings |-> templateStrings,
         templateWithPlaceholders |-> join(htmlChunks)]

\* templateStrings.forEach: a chunk per segment and, for every segment but the
\* last, a descriptor and its placeholder chunk
createTemplateCacheEntry(templateStrings) ==
    LET n == Len(templateStrings)
        meta == [k \in 1..(n - 1) |-> slotMeta(templateStrings[k], k - 1)]
        htmlChunks == [k \in 1..(2 * n - 1) |->
                          IF k % 2 = 1 THEN templateStrings[(k + 1) \div 2]
                          ELSE meta[k \div 2].substitutionPlaceholder]
    IN  [partMeta |-> meta,
         templateStrings |-> templateStrings,
         templateWithPlaceholders |-> join(htmlChunks)]

\* the compile step, with the identity of the partMeta array it allocates
CompileEntry(site, count) ==
    LET e == createTemplateCacheEntry(TemplateStrings[site]) IN
    [partMeta |-> e.partMeta, partMetaRef |-> SeqSum(count) + 1,
     templateStrings |-> site,
     templateWithPlaceholders |-> e.templateWithPlaceholders]

\* templateCache.set(template, entry)
templateCacheSet(cache, template, entry) ==
    [s \in DOMAIN cache \cup {template} |-> IF s = template THEN entry ELSE cache[s]]

\* templateCache.get(template)! and the TemplateResult built from it
templateCacheGet(cache, count, template, substitutions) ==
    [cache |-> cache,
     count |-> count,
     result |-> [partMeta |-> cache[template].partMeta,
                 partMetaRef |-> cache[template].partMetaRef,
                 substitutions |-> substitutions,
                 templateStrings |-> cache[template].templateStrings,
                 templateWithPlaceholders |-> cache[template].templateWithPlaceholders]]

htmlNoCache(cache, count, template, substitutions) ==
    templateCacheGet(templateCacheSet(cache, template, CompileEntry(template, count)),
                     [count EXCEPT ![template] = @ + 1], template, substitutions)

\* html(template, ...substitutions) on the module's templateCache
html(cache, count, template, substitutions) ==
    IF template \notin DOMAIN cache
    THEN templateCacheGet(templateCacheSet(cache, template, CompileEntry(template, count)),
                          [count EXCEPT ![template] = @ + 1], template, substitutions)
    ELSE templateCacheGet(cache, count, template, substitutions)

\* the values a call site passes in these runs
HtmlValues == {"1", "2"}

\* all sequences of length n over S
RECURSIVE SeqsOfLen(_, _)
SeqsOfLen(S, n) ==
    IF n = 0 THEN {<<>>}
    ELSE {Append(q, x) : q \in SeqsOfLen(S, n - 1), x \in S}

InitHtml ==
    /\ templateCache = <<>>
    /\ compileCount = [s \in DOMAIN TemplateStrings |-> 0]
    /\ results = <<>>

\* one evaluation of a tagged template literal
Html(site, substitutions) ==
    /\ Len(results) < MaxHtmlCalls
    /\ \E r \in {html(templateCache, compileCount, site, substitutions)} :
       /\ templateCache' = r.cache
       /\ compileCount' = r.count
       /\ results' = Append(results, [template |-> site,
                                      substitutions |-> substitutions,
                                      result |-> r.result])

-----------------------------------------------------------------------------
(* the classification of one slot, for every short segment *)

SegmentAlphabet == {"o", "N", "=", "\"", "'", ">", " "}

InitClassify ==
    /\ segment = ""
    /\ segmentMeta = slotMeta("", 0)

\* the literal's author types one more character before the slot
Type(c) ==
    /\ Len(segment) < MaxSegmentLen
    /\ segment' = segment \o c
    /\ segmentMeta' = slotMeta(segment', 0)

-----------------------------------------------------------------------------
(* The DOM of the host, as a heap: node id -> node; 0 is null *)

NewNode(nodeType, nodeName, data) ==
    [nodeType |-> nodeType, nodeName |-> nodeName, data |-> data,
     attributes |-> <<>>, childNodes |-> <<>>, parentNode |-> 0, listeners |-> {}]

Range(q) == {q[i] : i \in DOMAIN q}

\* the function q on 1..n as a sequence
AsSeq(q) == SubSeq(q, 1, Len(q))

\* the index of x in q, or 0
IndexIn(q, x) ==
    IF \E i \in 1..Len(q) : q[i] = x
    THEN CHOOSE i \in 1..Len(q) : q[i] = x /\ \A j \in 1..(i - 1) : q[j] # x
    ELSE 0

Without(q, x) == SelectSeq(q, LAMBDA y : y # x)

\* a new node as the last child of parent; its id is Len of the result
AppendNewChild(d, parent, node) ==
    LET id == Len(d) + 1 IN
    [Append(d, [node EXCEPT !.parentNode = parent])
        EXCEPT ![parent].childNodes = Append(@, id)]

\* node taken out of its parent's children
Detach(d, node) ==
    IF d[node].parentNode = 0 THEN d
    ELSE [d EXCEPT ![d[node].parentNode].childNodes = Without(@, node),
                   ![node].parentNode = 0]

\* nodes (in order) inserted into parent's children before position at
InsertAt(d, parent, nodes, at) ==
    LET kids == d[parent].childNodes
        d1 == [d EXCEPT ![parent].childNodes =
                   SubSeq(kids, 1, at - 1) \o nodes \o SubSeq(kids, at, Len(kids))]
    IN  AsSeq([n \in 1..Len(d1) |->
                  IF n \in Range(nodes) THEN [d1[n] EXCEPT !.parentNode = parent]
                  ELSE d1[n]])

\* what inserting node inserts: a fragment's children, or the node itself
Inserted(d, node) ==
    IF d[node].nodeType = "fragment" THEN d[node].childNodes ELSE <<node>>

\* node (or a fragment's children) taken from where it is
Removed(d, node) ==
    IF d[node].nodeType = "fragment" THEN [d EXCEPT ![node].childNodes = <<>>]
    ELSE Detach(d, node)

IsParentNode(d, n) == d[n].nodeType \in {"element", "fragment"}

\* the descendants of root in tree order, root excluded
RECURSIVE TreeOrder(_, _)
RECURSIVE TreeOrderAll(_, _)
TreeOrder(d, root) == TreeOrderAll(d, d[root].childNodes)
TreeOrderAll(d, nodes) ==
    IF nodes = <<>> THEN <<>>
    ELSE <<Head(nodes)>> \o TreeOrder(d, Head(nodes)) \o TreeOrderAll(d, Tail(nodes))

\* Node.cloneNode(true): attributes are copied, listeners are not; the clone of
\* src becomes the last child of parent (0: no parent) and has id Len(d) + 1
RECURSIVE CloneInto(_, _, _)
RECURSIVE CloneAllInto(_, _, _)
CloneInto(d, src, parent) ==
    LET id == Len(d) + 1
        copy == [NewNode(d[src].nodeType, d[src].nodeName, d[src].data)
                    EXCEPT !.attributes = d[src].attributes, !.parentNode = parent]
        d1 == IF parent = 0 THEN Append(d, copy)
              ELSE [Append(d, copy) EXCEPT ![parent].childNodes = Append(@, id)]
    IN  CloneAllInto(d1, d[src].childNodes, id)
CloneAllInto(d, nodes, parent) ==
    IF nodes = <<>> THEN d
    ELSE CloneAllInto(CloneInto(d, Head(nodes), parent), Tail(nodes), parent)

\* Element.setAttribute on the heap
SetAttr(d, node, name, value) ==
    LET attrs == d[node].attributes IN
    IF \E i \in 1..Len(attrs) : attrs[i].name = name
    THEN [d EXCEPT ![node].attributes =
             AsSeq([i \in 1..Len(attrs) |->
                       IF attrs[i].name = name THEN [name |-> name, value |-> value]
                       ELSE attrs[i]])]
    ELSE [d EXCEPT ![node].attributes = Append(@, [name |-> name, value |-> value])]

-----------------------------------------------------------------------------
(* The host's HTML parser (template.innerHTML = ...), for the markup used here:
   elements with quoted or unquoted attributes, comments and text *)

SpaceChars == {" ", "\n", "\t"}

TagNameEnd == SpaceChars \cup {">", "/"}

\* the first index at or after i where s holds a character of stops,
\* Len(s) + 1 if none
RECURSIVE ScanTo(_, _, _)
ScanTo(s, i, stops) ==
    IF i > Len(s) \/ Ch(s, i) \in stops THEN i ELSE ScanTo(s, i + 1, stops)

\* the attributes of a start tag from i on: [attributes, next], next being the
\* index after the tag's '>'
RECURSIVE ParseAttributes(_, _, _)
ParseAttributes(s, i, acc) ==
    LET a == SkipSpaces(s, i) IN
    IF a > Len(s) THEN [attributes |-> acc, next |-> a]
    ELSE IF Ch(s, a) = ">" THEN [attributes |-> acc, next |-> a + 1]
    ELSE IF Ch(s, a) = "/" THEN ParseAttributes(s, a + 1, acc)
    ELSE
        LET nameEnd == ScanTo(s, a + 1, TagNameEnd \cup {"="})
            name == toLowerCase(SubSeq(s, a, nameEnd - 1))
            e == SkipSpaces(s, nameEnd)
            known == \E k \in 1..Len(acc) : acc[k].name = name
            With(value) == IF known THEN acc
                           ELSE Append(acc, [name |-> name, value |-> value])
        IN  IF e > Len(s) \/ Ch(s, e) # "="
            THEN ParseAttributes(s, e, With(""))
            ELSE LET v == SkipSpaces(s, e + 1) IN
                 IF v <= Len(s) /\ IsQuote(Ch(s, v))
                 THEN LET close == ScanTo(s, v + 1, {Ch(s, v)}) IN
                      ParseAttributes(s, close + 1, With(SubSeq(s, v + 1, close - 1)))
                 ELSE LET stop == ScanTo(s, v, SpaceChars \cup {">"}) IN
                      ParseAttributes(s, stop, With(SubSeq(s, v, stop - 1)))

IsLetter(c) == IsWordChar(c) /\ c # "_" /\ ~(\E i \in 1..Len(DigitChars) : Ch(DigitChars, i) = c)

\* the tree construction: open is the stack of open elements, its last the
\* current node
RECURSIVE ParseFrom(_, _, _, _)

\* a start tag: the element is appended to the current node and becomes the
\* current node; tag holds its attributes and the index after its '>'
StartTag(d, open, s, name, tag) ==
    ParseFrom(AppendNewChild(d, Last(open),
                  [NewNode("element", name, "") EXCEPT !.attributes = tag.attributes]),
              Append(open, Len(d) + 1), s, tag.next)

ParseFrom(d, open, s, i) ==
    IF i > Len(s) THEN d
    ELSE IF StartsWithAt(s, i, "<!--")
    THEN LET j == IndexOfFrom(s, "-->", i + 4)
             stop == IF j = 0 THEN Len(s) + 1 ELSE j
         IN  ParseFrom(AppendNewChild(d, Last(open),
                           NewNode("comment", "#comment", SubSeq(s, i + 4, stop - 1))),
                       open, s, stop + 3)
    ELSE IF StartsWithAt(s, i, "</")
    THEN LET j == ScanTo(s, i, {">"})
             name == toLowerCase(SubSeq(s, i + 2, j - 1))
             hits == {k \in 2..Len(open) : d[open[k]].nodeName = name}
         IN  ParseFrom(d,
                       IF hits = {} THEN open
                       ELSE SubSeq(open, 1, (CHOOSE k \in hits : \A x \in hits : x <= k) - 1),
                       s, j + 1)
    ELSE IF Ch(s, i) = "<" /\ i < Len(s) /\ IsLetter(Ch(s, i + 1))
    THEN LET nameEnd == ScanTo(s, i + 1, TagNameEnd) IN
         StartTag(d, open, s, toLowerCase(SubSeq(s, i + 1, nameEnd - 1)),
                  ParseAttributes(s, nameEnd, <<>>))
    ELSE LET stop == ScanTo(s, i + 1, {"<"}) IN
         ParseFrom(AppendNewChild(d, Last(open),
                       NewNode("text", "#text", SubSeq(s, i, stop - 1))),
                   open, s, stop)

\* document.createElement('template') with innerHTML = markup: the template's
\* content fragment is node Len(d) + 1 of the result
ParseTemplate(d, markup) ==
    LET content == Len(d) + 1 IN
    ParseFrom(Append(d, NewNode("fragment", "#document-fragment", "")),
              <<content>>, markup, 1)

\* the serialiser's escaping of text
RECURSIVE EscapeText(_)
EscapeText(s) ==
    IF s = "" THEN ""
    ELSE LET c == Ch(s, 1) IN
         (IF c = "&" THEN "&amp;" ELSE IF c = "<" THEN "&lt;"
          ELSE IF c = ">" THEN "&gt;" ELSE c) \o EscapeText(Slice(s, 1))

\* the serialiser's escaping of an attribute's value
RECURSIVE EscapeAttributeValue(_)
EscapeAttributeValue(s) ==
    IF s = "" THEN ""
    ELSE LET c == Ch(s, 1) IN
         (IF c = "&" THEN "&amp;" ELSE IF c = "\"" THEN "&quot;" ELSE c)
             \o EscapeAttributeValue(Slice(s, 1))

\* Element.innerHTML (get), as the tests read the container
RECURSIVE innerHTML(_, _)
RECURSIVE OuterHTMLAll(_, _)
innerHTML(d, node) == OuterHTMLAll(d, d[node].childNodes)
OuterHTMLAll(d, nodes) ==
    IF nodes = <<>> THEN ""
    ELSE LET n == d[Head(nodes)]
             attrs == join([k \in 1..Len(n.attributes) |->
                              " " \o n.attributes[k].name \o "=\""
                                  \o EscapeAttributeValue(n.attributes[k].value)
                                  \o "\""])
             first == CASE n.nodeType = "element" ->
                               "<" \o n.nodeName \o attrs \o ">"
                                   \o innerHTML(d, Head(nodes))
                                   \o "</" \o n.nodeName \o ">"
                        [] n.nodeType = "comment" -> "<!--" \o n.data \o "-->"
                        [] n.nodeType = "text" -> EscapeText(n.data)
                        [] OTHER -> ""
         IN  first \o OuterHTMLAll(d, Tail(nodes))

-----------------------------------------------------------------------------
(* Substitution values: scalars by value, objects by identity *)

\* a primitive, a function (s: its name) or an object with a callable
\* handleEvent (s: the name of that function)
Value(kind, s) == [kind |-> kind, s |-> s, id |-> <<>>, site |-> 0, subs |-> <<>>]

Undefined == Value("undefined", "")

\* what html`...` evaluates to at a call site; subs are its substitutions
TemplateValue(site, subs) ==
    [kind |-> "template", s |-> "", id |-> <<>>, site |-> site, subs |-> subs]

\* an array literal; subs are its items
ArrayValue(items) ==
    [kind |-> "array", s |-> "", id |-> <<>>, site |-> 0, subs |-> items]

IsObject(v) == v.kind \in {"template", "array"}

\* every evaluation of html`...` or of an array literal is a new object: id
\* is its identity
RECURSIVE Fresh(_, _)
Fresh(v, id) ==
    IF IsObject(v)
    THEN [v EXCEPT !.id = id,
                   !.subs = AsSeq([k \in 1..Len(v.subs) |->
                                      Fresh(v.subs[k], Append(id, k))])]
    ELSE v

\* a === b
StrictEquals(a, b) ==
    /\ a.kind = b.kind
    /\ IF IsObject(a) THEN a.id = b.id ELSE a.s = b.s

isTemplateResult(v) == v.kind = "template"

isArray(v) == v.kind = "array"

\* substitutions[index], index counted from 1 here
At(substitutions, index) ==
    IF index \in 1..Len(substitutions) THEN substitutions[index] ELSE Undefined

\* String(value)
RECURSIVE String(_)
RECURSIVE JoinWithComma(_)
String(v) ==
    CASE v.kind \in {"string", "number"} -> v.s
      [] v.kind = "undefined" -> "undefined"
      [] v.kind = "null" -> "null"
      [] v.kind = "function" -> "function " \o v.s \o "() {}"
      [] v.kind = "array" -> JoinWithComma(v.subs)
      [] OTHER -> "[object Object]"
JoinWithComma(items) ==
    IF items = <<>> THEN ""
    ELSE LET first == IF Head(items).kind \in {"undefined", "null"} THEN ""
                      ELSE String(Head(items))
         IN  IF Len(items) = 1 THEN first
             ELSE first \o "," \o JoinWithComma(Tail(items))

\* the listener an event slot takes from its substitution, "" for none
EventListenerOf(substitution) ==
    IF substitution.kind \in {"function", "handleEventObject"} THEN substitution.s
    ELSE ""

-----------------------------------------------------------------------------
(* html.ts, path based: the compiler that render.ts is written against *)

\* the template literals of the program, one per call site
PathTemplateStrings ==
    << <<"<p>", "</p>">>,
       <<"", "<p>", "</p>">>,
       <<"<p>", "</p>", "">>,
       <<"<button onclick=\"", "\">", "</button>">>,
       <<"<p id=\"x\">", "</p>">>,
       <<"<p class=\"", "\">", "</p>">>,
       <<"<h1>", "</h1>">>,
       <<"<li>", "</li>">>,
       <<"<p>x", "y</p>">>,
       <<"<p>", "", "</p>">>,
       <<"<i>", "</i><u></u>">>,
       <<"<div>", "<b>", "</b></div>">>,
       <<"<b>", "</b>">> >>

\* group 1 of the first match of /(\S+)=["']?/ in s, "" when there is none
reIsAttributePath(s) ==
    LET RunEnd(i) == ScanTo(s, i, SpaceChars) - 1
        Equals(i) == {k \in (i + 1)..RunEnd(i) : Ch(s, k) = "="}
        starts == {i \in 1..Len(s) : ~IsSpace(Ch(s, i)) /\ Equals(i) # {}}
    IN  IF starts = {} THEN ""
        ELSE LET i == CHOOSE x \in starts : \A y \in starts : x <= y
                 k == CHOOSE x \in Equals(i) : \A y \in Equals(i) : y <= x
             IN  SubSeq(s, i, k - 1)

\* the markup handed to the parser: the strings with a placeholder per slot
RECURSIVE PlaceholderMarkup(_, _)
PlaceholderMarkup(templateStrings, index) ==
    IF index > Len(templateStrings) THEN ""
    ELSE LET templateItem == templateStrings[index]
             attributeMatch == reIsAttributePath(templateItem)
             placeholder ==
                 IF index = Len(templateStrings) THEN ""
                 ELSE IF attributeMatch # ""
                 THEN (IF reIsEvent(attributeMatch) THEN "<!--$event$-->"
                       ELSE "<!--$attr$-->")
                 ELSE "<!--$text$-->"
         IN  templateItem \o placeholder \o PlaceholderMarkup(templateStrings, index + 1)

\* Node.nodeValue, "" standing for null
NodeValue(d, node) ==
    IF d[node].nodeType \in {"text", "comment"} THEN d[node].data ELSE ""

IsAttrPlaceholder(value) == value \in {"<!--$attr$-->", "<!--$event$-->"}

\* the walker's acceptNode
acceptNode(d, node) ==
    IF d[node].nodeType = "element"
    THEN \E k \in 1..Len(d[node].attributes) : IsAttrPlaceholder(d[node].attributes[k].value)
    ELSE NodeValue(d, node) = "$text$"

RECURSIVE getChildPathToAncesterNode(_, _, _)
getChildPathToAncesterNode(d, node, ancesterNode) ==
    IF node = 0 \/ node = ancesterNode \/ d[node].parentNode = 0 THEN <<>>
    ELSE Append(getChildPathToAncesterNode(d, d[node].parentNode, ancesterNode),
                IndexIn(d[d[node].parentNode].childNodes, node) - 1)

\* 0 stands for a missing node
RECURSIVE getNodeFromPathViaAncesterNode(_, _, _)
getNodeFromPathViaAncesterNode(d, path, ancesterNode) ==
    IF path = <<>> \/ ancesterNode = 0 THEN ancesterNode
    ELSE getNodeFromPathViaAncesterNode(d, Tail(path),
             IF Head(path) + 1 \in 1..Len(d[ancesterNode].childNodes)
             THEN d[ancesterNode].childNodes[Head(path) + 1] ELSE 0)

PathPartMeta(type, path, attr, event) ==
    [type |-> type, path |-> path, attr |-> attr, event |-> event]

\* the descriptors of the placeholder attributes of one element, in
\* attribute order
AttributeParts(attributes, path) ==
    LET marked == SelectSeq(attributes, LAMBDA a : IsAttrPlaceholder(a.value)) IN
    AsSeq([k \in 1..Len(marked) |->
        IF reIsEvent(marked[k].name)
        THEN PathPartMeta("event", path, "", toLowerCase(Slice(marked[k].name, 2)))
        ELSE PathPartMeta("attr", path, marked[k].name, "")])

\* the element without its event placeholder attributes
WithoutEventPlaceholders(d, node) ==
    [d EXCEPT ![node].attributes =
        SelectSeq(@, LAMBDA a : ~(IsAttrPlaceholder(a.value) /\ reIsEvent(a.name)))]

\* while (walker.nextNode()) { ... }
RECURSIVE WalkPlaceholders(_, _, _, _)
WalkPlaceholders(d, content, nodes, partMeta) ==
    IF nodes = <<>> THEN [dom |-> d, partMeta |-> partMeta]
    ELSE LET node == Head(nodes)
             path == getChildPathToAncesterNode(d, node, content)
         IN  IF ~acceptNode(d, node)
             THEN WalkPlaceholders(d, content, Tail(nodes), partMeta)
             ELSE IF NodeValue(d, node) = "$text$"
             THEN WalkPlaceholders(d, content, Tail(nodes),
                      Append(partMeta, PathPartMeta("text", path, "", "")))
             ELSE WalkPlaceholders(WithoutEventPlaceholders(d, node), content, Tail(nodes),
                      partMeta \o AttributeParts(d[node].attributes, path))

\* the walk over the parsed template, and the result: the heap with the
\* template's content in it, and the entry
WalkTemplate(parsed, content) ==
    WalkPlaceholders(parsed, content, TreeOrder(parsed, content), <<>>)

TemplateCacheEntry(walked, content) ==
    [dom |-> walked.dom,
     entry |-> [compiled |-> TRUE, template |-> content, partMeta |-> walked.partMeta]]

createTempleCacheEntry(d, templateStrings) ==
    TemplateCacheEntry(
        WalkTemplate(ParseTemplate(d, trim(PlaceholderMarkup(templateStrings, 1))),
                     Len(d) + 1),
        Len(d) + 1)

NoEntry == [compiled |-> FALSE, template |-> 0, partMeta |-> <<>>]

\* templateCache.set(template, createTempleCacheEntry(template))
pathTemplateCacheSet(st, site, created) ==
    [dom |-> created.dom, cache |-> [st.cache EXCEPT ![site] = created.entry]]

\* html`...` at call site: st is the heap and the template cache
htmlPath(st, site) ==
    IF st.cache[site].compiled THEN st
    ELSE pathTemplateCacheSet(st, site,
             createTempleCacheEntry(st.dom, PathTemplateStrings[site]))

\* the evaluation of a template expression: inner html`...` calls first
RECURSIVE Evaluate(_, _)
RECURSIVE EvaluateAll(_, _)
Evaluate(st, v) ==
    IF isTemplateResult(v) THEN htmlPath(EvaluateAll(st, v.subs), v.site)
    ELSE IF isArray(v) THEN EvaluateAll(st, v.subs)
    ELSE st
EvaluateAll(st, values) ==
    IF values = <<>> THEN st
    ELSE EvaluateAll(Evaluate(st, Head(values)), Tail(values))

-----------------------------------------------------------------------------
(* render.ts on a machine m: the heap (dom), the Node Instances by container
   (cache), the compiled templates (templates), the exception thrown so far
   (err, "" for none) and the writes made so far (log) *)

Throw(m, name) == [m EXCEPT !.err = name]

\* one write, to a node or to part `part` of the instance of container target
Log(m, op, target, part) ==
    [m EXCEPT !.log = Append(@, [op |-> op, target |-> target, part |-> part])]

RECURSIVE LogEach(_, _, _)
LogEach(m, op, targets) ==
    IF targets = <<>> THEN m
    ELSE LogEach(Log(m, op, Head(targets), 0), op, Tail(targets))

\* document.createDocumentFragment(): the fragment is node Len(dom) of the result
createDocumentFragment(m) ==
    [m EXCEPT !.dom = Append(@, NewNode("fragment", "#document-fragment", ""))]

\* document.createTextNode(data): the text is node Len(dom) of the result
createTextNode(m, data) ==
    [m EXCEPT !.dom = Append(@, NewNode("text", "#text", data))]

\* is a an inclusive ancestor of n
RECURSIVE IsInclusiveAncestor(_, _, _)
IsInclusiveAncestor(d, a, n) ==
    IF n = 0 THEN FALSE
    ELSE IF a = n THEN TRUE
    ELSE IsInclusiveAncestor(d, a, d[n].parentNode)

\* the host's check before an insertion of node into parent: "" or the
\* exception's name
InsertionError(d, parent, node) ==
    IF ~IsParentNode(d, parent) THEN "HierarchyRequestError"
    ELSE IF IsInclusiveAncestor(d, node, parent) THEN "HierarchyRequestError"
    ELSE ""

\* parent.appendChild(node)
appendChild(m, parent, node) ==
    IF m.err # "" THEN m
    ELSE IF parent = 0 THEN Throw(m, "TypeError")
    ELSE IF InsertionError(m.dom, parent, node) # ""
    THEN Throw(m, InsertionError(m.dom, parent, node))
    ELSE LET nodes == Inserted(m.dom, node)
             d1 == Removed(m.dom, node)
         IN  Log([m EXCEPT !.dom = InsertAt(d1, parent, nodes, Len(d1[parent].childNodes) + 1)],
                 "appendChild", parent, 0)

RECURSIVE AppendEach(_, _, _)
AppendEach(m, parent, nodes) ==
    IF nodes = <<>> THEN m
    ELSE AppendEach(appendChild(m, parent, Head(nodes)), parent, Tail(nodes))

\* parent.replaceChild(node, child)
replaceChild(m, parent, node, child) ==
    IF m.err # "" THEN m
    ELSE IF InsertionError(m.dom, parent, node) # ""
    THEN Throw(m, InsertionError(m.dom, parent, node))
    ELSE IF m.dom[child].parentNode # parent THEN Throw(m, "NotFoundError")
    ELSE LET nodes == Inserted(m.dom, node)
             d1 == Removed(m.dom, node)
             at == IndexIn(d1[parent].childNodes, child)
             d2 == InsertAt(Detach(d1, child), parent, nodes, at)
         IN  Log(Log([m EXCEPT !.dom = d2], "replaceChild", parent, 0), "remove", child, 0)

RECURSIVE DetachEach(_, _)
DetachEach(d, nodes) ==
    IF nodes = <<>> THEN d ELSE DetachEach(Detach(d, Head(nodes)), Tail(nodes))

\* parent.replaceChildren(node)
replaceChildren(m, parent, node) ==
    IF m.err # "" THEN m
    ELSE IF InsertionError(m.dom, parent, node) # ""
    THEN Throw(m, InsertionError(m.dom, parent, node))
    ELSE LET nodes == Inserted(m.dom, node)
             d1 == Removed(m.dom, node)
             old == d1[parent].childNodes
             d2 == InsertAt(DetachEach(d1, old), parent, nodes, 1)
         IN  LogEach(Log([m EXCEPT !.dom = d2], "replaceChildren", parent, 0), "remove", old)

\* node.textContent = data
setTextContent(m, node, data) ==
    IF m.err # "" THEN m
    ELSE IF m.dom[node].nodeType \in {"text", "comment"}
    THEN Log([m EXCEPT !.dom[node].data = data], "textContent", node, 0)
    ELSE LET old == m.dom[node].childNodes
             d1 == DetachEach(m.dom, old)
             d2 == IF data = "" THEN d1
                   ELSE AppendNewChild(d1, node, NewNode("text", "#text", data))
         IN  LogEach(Log([m EXCEPT !.dom = d2], "textContent", node, 0), "remove", old)

\* node.setAttribute(name, value)
setAttribute(m, node, name, value) ==
    IF m.err # "" THEN m
    ELSE Log([m EXCEPT !.dom = SetAttr(@, node, name, value)], "setAttribute", node, 0)

\* node.addEventListener(type, listener): the same listener is kept once
addEventListener(m, node, type, listener) ==
    IF m.err # "" THEN m
    ELSE Log([m EXCEPT !.dom[node].listeners = @ \cup {<<type, listener>>}],
             "addEventListener", node, 0)

\* node.removeEventListener(type, listener)
removeEventListener(m, node, type, listener) ==
    IF m.err # "" THEN m
    ELSE Log([m EXCEPT !.dom[node].listeners = @ \ {<<type, listener>>}],
             "removeEventListener", node, 0)

\* a Part; the fields its type does not have are empty
Part(type, nodes, node, name, lastValue, lastEventListener) ==
    [type |-> type, nodes |-> nodes, node |-> node,
     attr |-> IF type = "attr" THEN name ELSE "",
     event |-> IF type = "event" THEN name ELSE "",
     lastValue |-> lastValue, lastEventListener |-> lastEventListener]

RECURSIVE createNodeInstance(_, _)
RECURSIVE FillFragment(_, _, _)
RECURSIVE FirstRenderParts(_, _, _, _, _, _)
RECURSIVE render(_, _, _)
RECURSIVE UpdateParts(_, _, _, _)
RECURSIVE patchText(_, _, _, _)

\* nestedInstance.nodes.forEach: every node of the nested instance is appended
\* to fragment
AppendNested(nested, fragment) ==
    AppendEach(nested.m, fragment, nested.instance.nodes)

\* the same on a new fragment, which is node Len(nested.m.dom) + 1 of the result
NestedFragment(nested) ==
    AppendEach(createDocumentFragment(nested.m), Len(nested.m.dom) + 1,
               nested.instance.nodes)

\* substitution.forEach over the items of an array: every item's nodes are
\* appended to fragment
FillFragment(m, fragment, items) ==
    IF items = <<>> \/ m.err # "" THEN m
    ELSE LET item == Head(items) IN
         IF isTemplateResult(item)
         THEN FillFragment(AppendNested(createNodeInstance(m, item), fragment),
                           fragment, Tail(items))
         ELSE LET m1 == createTextNode(m, String(item)) IN
              FillFragment(appendChild(m1, fragment, Len(m1.dom)), fragment, Tail(items))

\* a new fragment filled with the items: the fragment is node Len(m.dom) + 1 of
\* the result
FilledFragment(m, items) ==
    FillFragment(createDocumentFragment(m), Len(m.dom) + 1, items)

\* node.parentNode?.replaceChild(fragment, node)
ReplacePlaceholder(m, node, replacement) ==
    IF m.err # "" \/ m.dom[node].parentNode = 0 THEN m
    ELSE replaceChild(m, m.dom[node].parentNode, replacement, node)

\* case 'text' of the first render with a TemplateResult: the machine and the
\* part pushed
FirstNested(nested, node, substitution) ==
    [m |-> ReplacePlaceholder(NestedFragment(nested), node, Len(nested.m.dom) + 1),
     part |-> Part("text", nested.instance.nodes, 0, "", substitution, "")]

\* case 'text' of the first render with an array; filled is the machine after
\* the forEach
FirstArray(filled, fragment, node, substitution) ==
    [m |-> ReplacePlaceholder(filled, node, fragment),
     part |-> Part("text", filled.dom[fragment].childNodes, 0, "", substitution, "")]

\* case 'text' of the first render with any other value; text is the last
\* node of created's heap
FirstText(created, node, substitution) ==
    [m |-> ReplacePlaceholder(created, node, Len(created.dom)),
     part |-> Part("text", <<Len(created.dom)>>, 0, "", substitution, "")]

\* the node of descriptor index, were its path followed only when the forEach
\* reaches the descriptor, in the fragment as the earlier replacements left it
SubstituteNodeByPathNow(m, meta, fragmentRoot, subsituteNodes, index) ==
    getNodeFromPathViaAncesterNode(m.dom, meta.path, fragmentRoot)

\* const node = subsituteNodes[index]: the node located in the fresh clone
SubstituteNode(m, meta, fragmentRoot, subsituteNodes, index) == subsituteNodes[index]

\* partMeta.forEach of the first render, from descriptor index on
FirstRenderParts(m, templateResult, fragmentRoot, subsituteNodes, index, parts) ==
    LET partMeta == m.templates[templateResult.site].partMeta IN
    IF index > Len(partMeta) \/ m.err # "" THEN [m |-> m, parts |-> parts]
    ELSE
    LET meta == partMeta[index]
        substitution == At(templateResult.subs, index)
        node == SubstituteNode(m, meta, fragmentRoot, subsituteNodes, index)
        Continue(m1, parts1) ==
            FirstRenderParts(m1, templateResult, fragmentRoot, subsituteNodes, index + 1, parts1)
        Push(done) == Continue(done.m, Append(parts, done.part))
    IN
    IF node = 0 THEN Continue(m, parts)
    ELSE IF meta.type = "attr"
    THEN Continue(setAttribute(m, node, meta.attr, String(substitution)),
                  Append(parts, Part("attr", <<>>, node, meta.attr, Undefined, "")))
    ELSE IF meta.type = "event"
    THEN LET eventListener == EventListenerOf(substitution) IN
         IF eventListener # ""
         THEN Continue(addEventListener(m, node, meta.event, eventListener),
                       Append(parts, Part("event", <<>>, node, meta.event, Undefined,
                                          eventListener)))
         ELSE Continue(m, parts)
    ELSE IF isTemplateResult(substitution)
    THEN Push(FirstNested(createNodeInstance(m, substitution), node, substitution))
    ELSE IF isArray(substitution)
    THEN Push(FirstArray(FilledFragment(m, substitution.subs), Len(m.dom) + 1,
                         node, substitution))
    ELSE Push(FirstText(createTextNode(m, String(substitution)), node, substitution))

\* the returned instance, with the machine; rendered is what the forEach left
NodeInstance(rendered, fragmentRoot) ==
    [m |-> rendered.m,
     instance |-> [parent |-> 0,
                   nodes |-> rendered.m.dom[fragmentRoot].childNodes,
                   parts |-> rendered.parts]]

\* the result: the machine and the instance
createNodeInstance(m, templateResult) ==
    LET entry == m.templates[templateResult.site]
        fragmentRoot == Len(m.dom) + 1
        m1 == [m EXCEPT !.dom = CloneInto(@, entry.template, 0)]
        subsituteNodes ==
            AsSeq([k \in 1..Len(entry.partMeta) |->
                getNodeFromPathViaAncesterNode(m1.dom, entry.partMeta[k].path, fragmentRoot)])
    IN  NodeInstance(FirstRenderParts(m1, templateResult, fragmentRoot, subsituteNodes, 1, <<>>),
                     fragmentRoot)

\* case 'attr' of an update
patchAttr(m, container, index, substitution) ==
    LET part == m.cache[container].parts[index] IN
    setAttribute(m, part.node, part.attr, String(substitution))

\* case 'event' of an update, were the previous listener never removed
patchEventKeepingListeners(m, container, index, substitution) ==
    LET part == m.cache[container].parts[index]
        eventListener == EventListenerOf(substitution)
    IN  IF eventListener # ""
        THEN Log([addEventListener(m, part.node, part.event, eventListener)
                     EXCEPT !.cache[container].parts[index].lastEventListener = eventListener],
                 "part.lastEventListener", container, index)
        ELSE m

\* case 'event' of an update
patchEvent(m, container, index, substitution) ==
    LET part == m.cache[container].parts[index]
        eventListener == EventListenerOf(substitution)
        m1 == IF part.lastEventListener # ""
              THEN removeEventListener(m, part.node, part.event, part.lastEventListener)
              ELSE m
    IN  IF eventListener # ""
        THEN Log([addEventListener(m1, part.node, part.event, eventListener)
                     EXCEPT !.cache[container].parts[index].lastEventListener = eventListener],
                 "part.lastEventListener", container, index)
        ELSE m1

\* part.nodes = nodes
SetPartNodes(m, container, index, nodes) ==
    IF m.err # "" THEN m
    ELSE Log([m EXCEPT !.cache[container].parts[index].nodes = nodes],
             "part.nodes", container, index)

\* part.lastValue = substitution
SetLastValue(m, container, index, substitution) ==
    IF m.err # "" THEN m
    ELSE Log([m EXCEPT !.cache[container].parts[index].lastValue = substitution],
             "part.lastValue", container, index)

\* the array is, item for item, the array of the previous render
SameItems(lastValue, substitution) ==
    /\ isArray(lastValue)
    /\ Len(lastValue.subs) = Len(substitution.subs)
    /\ \A k \in 1..Len(substitution.subs) :
           StrictEquals(substitution.subs[k], lastValue.subs[k])

\* the recursive update: render(substitution, nestedInstance.parent ??
\* part.nodes[0].parentNode!), nested being the instance made of part.lastValue
RenderNested(nested, part, substitution) ==
    IF part.nodes = <<>> THEN Throw(nested.m, "TypeError")
    ELSE render(nested.m, substitution, nested.m.dom[part.nodes[1]].parentNode)

\* a TemplateResult where there was none: firstNode?.replaceChild(fragment,
\* firstNode) and part.nodes = nestedInstance.nodes
ReplaceByNested(nested, part, container, index) ==
    SetPartNodes(IF part.nodes = <<>> THEN NestedFragment(nested)
                 ELSE replaceChild(NestedFragment(nested), part.nodes[1],
                                   Len(nested.m.dom) + 1, part.nodes[1]),
                 container, index, nested.instance.nodes)

\* an array: part.nodes[0].parentNode?.replaceChildren(fragment) and
\* part.nodes = childNodes; filled is the machine after the forEach
ReplaceByArray(filled, fragment, part, container, index) ==
    SetPartNodes(IF filled.err # "" THEN filled
                 ELSE IF part.nodes = <<>> THEN Throw(filled, "TypeError")
                 ELSE IF filled.dom[part.nodes[1]].parentNode = 0 THEN filled
                 ELSE replaceChildren(filled, filled.dom[part.nodes[1]].parentNode,
                                      fragment),
                 container, index, filled.dom[fragment].childNodes)

\* case 'text' of an update
patchText(m, container, index, substitution) ==
    LET part == m.cache[container].parts[index] IN
    IF StrictEquals(substitution, part.lastValue) THEN m
    ELSE IF isTemplateResult(substitution) /\ isTemplateResult(part.lastValue)
    THEN SetLastValue(RenderNested(createNodeInstance(m, part.lastValue), part,
                                   substitution),
                      container, index, substitution)
    ELSE IF isTemplateResult(substitution)
    THEN SetLastValue(ReplaceByNested(createNodeInstance(m, substitution), part,
                                      container, index),
                      container, index, substitution)
    ELSE IF isArray(substitution)
    THEN IF SameItems(part.lastValue, substitution) THEN m
         ELSE SetLastValue(ReplaceByArray(FilledFragment(m, substitution.subs),
                                          Len(m.dom) + 1, part, container, index),
                           container, index, substitution)
    ELSE IF part.nodes = <<>> THEN Throw(m, "TypeError")
    ELSE SetLastValue(setTextContent(m, part.nodes[1], String(substitution)),
                      container, index, substitution)

\* instance.parts.forEach of an update, from part index on
UpdateParts(m, templateResult, container, index) ==
    IF m.err # "" \/ index > Len(m.cache[container].parts) THEN m
    ELSE LET part == m.cache[container].parts[index]
             substitution == At(templateResult.subs, index)
             m1 == CASE part.type = "attr" -> patchAttr(m, container, index, substitution)
                     [] part.type = "event" -> patchEvent(m, container, index, substitution)
                     [] OTHER -> patchText(m, container, index, substitution)
         IN  UpdateParts(m1, templateResult, container, index + 1)

\* the first render into container: instance.parent = container, every node
\* appended, nodeInstanceCache.set(container, instance)
FirstTimeRender(created, container) ==
    LET m1 == AppendEach(created.m, container, created.instance.nodes) IN
    IF m1.err # "" THEN m1
    ELSE IF container = 0 THEN Throw(m1, "TypeError")
    ELSE [m1 EXCEPT !.cache =
             (container :> [created.instance EXCEPT !.parent = container]) @@ @]

\* render(templateResult, container); container 0 is null
render(m, templateResult, container) ==
    IF m.err # "" THEN m
    ELSE IF container \notin DOMAIN m.cache
    THEN FirstTimeRender(createNodeInstance(m, templateResult), container)
    ELSE UpdateParts(m, templateResult, container, 1)

-----------------------------------------------------------------------------
(* The program: render calls into one container *)

\* the container element, made before any render
Container == 1

eventHandler == Value("function", "eventHandler")
otherHandler == Value("function", "otherHandler")

\* the values a program passes at the slots of each call site
Scalars == {Value("string", "a"), Value("string", "b")}

Headers == {TemplateValue(7, <<Value("string", "1")>>), TemplateValue(7, <<Value("string", "2")>>)}

Item(n) == TemplateValue(8, <<Value("string", n)>>)

Lists == {ArrayValue(<<>>), ArrayValue(<<Item("1")>>), ArrayValue(<<Item("1"), Item("2")>>)}

Listeners ==
    {eventHandler, otherHandler, Value("handleEventObject", "eventHandler"), Value("null", "")}

SlotValues(site) ==
    CASE site = 1 -> <<Scalars \cup Headers \cup Lists>>
      [] site = 2 -> <<Headers, Scalars>>
      [] site = 3 -> <<Scalars, Headers>>
      [] site = 4 -> <<Listeners, Scalars>>
      [] site = 5 -> <<Scalars>>
      [] site = 6 -> <<Scalars, Scalars>>
      [] site = 7 -> <<Scalars>>
      [] OTHER -> <<Scalars>>

\* the sequences that take their k-th element from the k-th set
RECURSIVE Tuples(_)
Tuples(sets) ==
    IF sets = <<>> THEN {<<>>}
    ELSE {<<x>> \o rest : x \in Head(sets), rest \in Tuples(Tail(sets))}

\* what the container and its instance look like after a call: the markup,
\* the nodes below the container in tree order, and the parts
Snapshot(m, container) ==
    LET order == TreeOrder(m.dom, container) IN
    [innerHTML |-> innerHTML(m.dom, container),
     tree |-> AsSeq([p \in 1..Len(order) |-> [id |-> order[p], node |-> m.dom[order[p]]]]),
     parts |-> IF container \in DOMAIN m.cache THEN m.cache[container].parts ELSE <<>>]

InitRender ==
    /\ dom = <<NewNode("element", "div", "")>>
    /\ pathTemplateCache = [site \in DOMAIN PathTemplateStrings |-> NoEntry]
    /\ nodeInstanceCache = <<>>
    /\ calls = <<>>
    /\ thrown = ""
    /\ domLog = <<>>
    /\ shown = <<>>

\* render(html`...`, container), the template evaluated at call site `site`
\* with the given substitutions
Render(site, substitutions) ==
    /\ Len(calls) < MaxRenders
    /\ thrown = ""
    /\ calls # <<>> => calls[1].templateResult.site = site
    /\ \E templateResult \in {Fresh(TemplateValue(site, substitutions), <<Len(calls) + 1>>)} :
       \E evaluated \in {Evaluate([dom |-> dom, cache |-> pathTemplateCache],
                                  templateResult)} :
       \E m \in {render([dom |-> evaluated.dom, cache |-> nodeInstanceCache,
                         templates |-> evaluated.cache, err |-> "", log |-> <<>>],
                        templateResult, Container)} :
           /\ dom' = m.dom
           /\ pathTemplateCache' = evaluated.cache
           /\ nodeInstanceCache' = m.cache
           /\ calls' = Append(calls, [templateResult |-> templateResult,
                                      container |-> Container])
           /\ thrown' = m.err
           /\ domLog' = m.log
           /\ shown' = Append(shown, Snapshot(m, Container))

-----------------------------------------------------------------------------
(* serialization/serializeHTMLfragment.ts on a tree t: the heap (dom) and the
   shadow roots by host (shadows). A shadow root is a fragment node of the
   heap; template elements and processing instructions are not among the
   nodes of these trees. *)

obsoleteElements == {"basefont", "bgsound", "frame", "keygen", "param"}

rawTextElements ==
    {"script", "style", "xmp", "iframe", "noembed", "noframes", "plaintext", "noscript"}

voidElements ==
    {"area", "base", "br", "col", "embed", "hr", "img", "input", "link", "meta",
     "source", "track", "wbr"}

\* U+00A0, the no-break space, written as one ASCII character in these strings
NBSP == "~"

\* String.prototype.replace(/c/g, to) for a one-character pattern
RECURSIVE ReplaceAll(_, _, _)
ReplaceAll(value, c, to) ==
    IF value = "" THEN ""
    ELSE (IF Head(value) = Head(c) THEN to ELSE Ch(value, 1))
             \o ReplaceAll(Tail(value), c, to)

\* the replacements of escapeAttribute with the ampersand replaced last
escapeAttributeAmpersandLast(value) ==
    ReplaceAll(ReplaceAll(ReplaceAll(value, "\"", "&quot;"), "<", "&lt;"), "&", "&amp;")

escapeAttribute(value) ==
    ReplaceAll(ReplaceAll(ReplaceAll(value, "&", "&amp;"), "\"", "&quot;"), "<", "&lt;")

escapeText(value) ==
    ReplaceAll(ReplaceAll(ReplaceAll(ReplaceAll(value, "&", "&amp;"), NBSP, "&nbsp;"),
                          "<", "&lt;"),
               ">", "&gt;")

\* the options argument; undefined members count as false and as no list
GetHTMLOptions(serializableShadowRoots, shadowRoots) ==
    [serializableShadowRoots |-> serializableShadowRoots, shadowRoots |-> shadowRoots]

NoOptions == GetHTMLOptions(FALSE, {})

\* Element.shadowRoot: null (0) without a shadow root and for a closed one
shadowRoot(t, node) ==
    IF node \in DOMAIN t.shadows /\ t.shadows[node].mode = "open"
    THEN t.shadows[node].root
    ELSE 0

IsElement(t, node) == t.dom[node].nodeType = "element"

\* the condition under which the shadow root of a host is serialized
ShadowIsSerialized(shadow, options) ==
    \/ options.serializableShadowRoots /\ shadow.serializable
    \/ shadow.root \in options.shadowRoots

\* the open tag with the serializable flag put before the delegates-focus flag
ShadowTemplateTagSerializableFirst(shadow) ==
    "<template shadowrootmode=\"" \o shadow.mode \o "\""
        \o (IF shadow.serializable THEN " shadowrootserializable=\"\"" ELSE "")
        \o (IF shadow.delegatesFocus THEN " shadowrootdelegatesfocus=\"\"" ELSE "")
        \o (IF shadow.clonable THEN " shadowrootclonable=\"\"" ELSE "")
        \o ">"

\* the open tag of the template that stands for the shadow root
ShadowTemplateTag(shadow) ==
    "<template shadowrootmode=\"" \o shadow.mode \o "\""
        \o (IF shadow.delegatesFocus THEN " shadowrootdelegatesfocus=\"\"" ELSE "")
        \o (IF shadow.serializable THEN " shadowrootserializable=\"\"" ELSE "")
        \o (IF shadow.clonable THEN " shadowrootclonable=\"\"" ELSE "")
        \o ">"

\* the attributes of an element, each as ' name="value"'
SerializeAttributes(attributes) ==
    join([k \in 1..Len(attributes) |->
             " " \o toLowerCase(attributes[k].name) \o "=\""
                 \o escapeAttribute(attributes[k].value) \o "\""])

\* case Node.TEXT_NODE
SerializeText(t, currentNode) ==
    IF /\ t.dom[currentNode].parentNode # 0
       /\ IsElement(t, t.dom[currentNode].parentNode)
       /\ t.dom[t.dom[currentNode].parentNode].nodeName \in rawTextElements
    THEN t.dom[currentNode].data
    ELSE escapeText(t.dom[currentNode].data)

RECURSIVE serializeHTMLfragment(_, _, _)
RECURSIVE SerializeChild(_, _, _)

\* the callback, were the children of an element serialized without the options
SerializeChildWithoutOptions(t, currentNode, options) ==
    CASE t.dom[currentNode].nodeType = "element" ->
             "<" \o t.dom[currentNode].nodeName
                 \o SerializeAttributes(t.dom[currentNode].attributes) \o ">"
                 \o (IF t.dom[currentNode].nodeName \in voidElements \cup obsoleteElements
                     THEN ""
                     ELSE serializeHTMLfragment(t, currentNode, NoOptions)
                              \o "</" \o t.dom[currentNode].nodeName \o ">")
      [] t.dom[currentNode].nodeType = "text" -> SerializeText(t, currentNode)
      [] t.dom[currentNode].nodeType = "comment" ->
             "<!--" \o t.dom[currentNode].data \o "-->"
      [] t.dom[currentNode].nodeType = "doctype" ->
             "<!DOCTYPE " \o t.dom[currentNode].nodeName \o ">"
      [] OTHER -> ""

\* the callback of Array.from(node.childNodes).map
SerializeChild(t, currentNode, options) ==
    CASE t.dom[currentNode].nodeType = "element" ->
             "<" \o t.dom[currentNode].nodeName
                 \o SerializeAttributes(t.dom[currentNode].attributes) \o ">"
                 \o (IF t.dom[currentNode].nodeName \in voidElements \cup obsoleteElements
                     THEN ""
                     ELSE serializeHTMLfragment(t, currentNode, options)
                              \o "</" \o t.dom[currentNode].nodeName \o ">")
      [] t.dom[currentNode].nodeType = "text" -> SerializeText(t, currentNode)
      [] t.dom[currentNode].nodeType = "comment" ->
             "<!--" \o t.dom[currentNode].data \o "-->"
      [] t.dom[currentNode].nodeType = "doctype" ->
             "<!DOCTYPE " \o t.dom[currentNode].nodeName \o ">"
      [] OTHER -> ""

serializeHTMLfragment(t, node, options) ==
    IF IsElement(t, node) /\ t.dom[node].nodeName \in obsoleteElements \cup voidElements
    THEN ""
    ELSE (IF /\ IsElement(t, node)
             /\ shadowRoot(t, node) # 0
             /\ ShadowIsSerialized(t.shadows[node], options)
          THEN ShadowTemplateTag(t.shadows[node])
                   \o serializeHTMLfragment(t, shadowRoot(t, node), options)
                   \o "</template>"
          ELSE "")
         \o join([k \in 1..Len(t.dom[node].childNodes) |->
                     SerializeChild(t, t.dom[node].childNodes[k], options)])

-----------------------------------------------------------------------------
(* renderToString.ts: the interpolation of a template result into markup *)

\* the template literals handed to renderToString, one per call site
StringTemplateStrings ==
    << <<"<button onclick=\"", "\">Hi</button>">>,
       <<"<button id=\"a\" onclick=\"", "\">Hi</button>">>,
       <<"<p class=\"a\">x</p><button onclick=\"", "\">Hi</button>">>,
       <<"<button data-click=\"a\" onclick=\"", "\">Hi</button>">>,
       <<"<p>", "</p><button onclick=\"", "\">Hi</button>">>,
       <<"<p class=\"", "\">", "</p><p>", "</p>">>,
       <<"<b>", "</b>">>,
       <<"<!DOCTYPE html>\n<html lang=\"", "\"><head><title>", "</title></head><body></body></html>">>,
       <<"<!DOCTYPE html><html lang=\"", "\"><head><title>", "</title></head><body></body></html>">>,
       <<"<html lang=\"", "\"><head><title>", "</title></head><body></body></html>">>,
       <<"<div>\n<html lang=\"", "\">", "</div>">>,
       <<"<!DOCTYPE html PUBLIC \"-//W3C//DTD HTML 4.01//EN\" \"strict.dtd\">\n<html lang=\"",
         "\"><head><title>", "</title></head><body></body></html>">> >>

\* what html`...` hands to renderToString for a call site and its substitutions
TemplateResultOf(templateValue) ==
    [partMeta |-> createTemplateCacheEntry(StringTemplateStrings[templateValue.site]).partMeta,
     substitutions |-> templateValue.subs,
     templateWithPlaceholders |->
         createTemplateCacheEntry(StringTemplateStrings[templateValue.site])
             .templateWithPlaceholders]

\* String.prototype.slice(start, end), 0-based, a negative bound counted from the end
SliceRange(s, start, end) ==
    SubSeq(s,
           (IF start < 0 THEN (IF Len(s) + start < 0 THEN 0 ELSE Len(s) + start)
            ELSE IF start > Len(s) THEN Len(s) ELSE start) + 1,
           IF end < 0 THEN (IF Len(s) + end < 0 THEN 0 ELSE Len(s) + end)
           ELSE IF end > Len(s) THEN Len(s) ELSE end)

\* the replacement text of String.prototype.replace with a string pattern:
\* $$ is a dollar sign, $& the match, $' what is after it (and $ with a grave
\* accent what is before it, a character these strings do not hold)
RECURSIVE GetSubstitution(_, _, _)
GetSubstitution(matched, after, replacement) ==
    IF replacement = "" THEN ""
    ELSE IF Len(replacement) >= 2 /\ Ch(replacement, 1) = "$"
                /\ Ch(replacement, 2) \in {"$", "&", "'"}
    THEN (CASE Ch(replacement, 2) = "$" -> "$"
            [] Ch(replacement, 2) = "&" -> matched
            [] OTHER -> after)
             \o GetSubstitution(matched, after, Slice(replacement, 2))
    ELSE Ch(replacement, 1) \o GetSubstitution(matched, after, Tail(replacement))

\* the match at index at (1-based) replaced
ReplaceAt(s, at, pattern, replacement) ==
    SubSeq(s, 1, at - 1)
        \o GetSubstitution(pattern, SubSeq(s, at + Len(pattern), Len(s)), replacement)
        \o SubSeq(s, at + Len(pattern), Len(s))

\* String.prototype.replace(pattern, replacement), both strings: the first
\* occurrence only
replace(s, pattern, replacement) ==
    IF IndexOfFrom(s, pattern, 1) = 0 THEN s
    ELSE ReplaceAt(s, IndexOfFrom(s, pattern, 1), pattern, replacement)

\* where reEvent can start to match: a name, white space, an equals sign
reEventStarts(s) ==
    {i \in 1..Len(s) :
        /\ IsAttrNameChar(Ch(s, i))
        /\ SkipSpaces(s, NameRunEnd(s, i) + 1) <= Len(s)
        /\ Ch(s, SkipSpaces(s, NameRunEnd(s, i) + 1)) = "="}

\* the rest of reEvent from v on (an optional quote, a run without quotes,
\* an optional quote): the index after the match
reEventValueEnd(s, v) ==
    IF ScanTo(s, IF v <= Len(s) /\ IsQuote(Ch(s, v)) THEN v + 1 ELSE v, {"\"", "'"}) <= Len(s)
    THEN ScanTo(s, IF v <= Len(s) /\ IsQuote(Ch(s, v)) THEN v + 1 ELSE v, {"\"", "'"}) + 1
    ELSE Len(s) + 1

\* the match of reEvent that starts at i: group 1 and the index after the match
reEventMatchAt(s, i) ==
    [event |-> SubSeq(s, i, NameRunEnd(s, i)),
     index |-> i,
     end |-> reEventValueEnd(s, SkipSpaces(s, SkipSpaces(s, NameRunEnd(s, i) + 1) + 1))]

\* result.match(reEvent): the leftmost match, index 0 for null
reEvent(s) ==
    IF reEventStarts(s) = {} THEN [event |-> "", index |-> 0, end |-> 0]
    ELSE reEventMatchAt(s, CHOOSE i \in reEventStarts(s) : \A j \in reEventStarts(s) : i <= j)

\* String.prototype.includes
includes(s, p) == p = "" \/ IndexOfFrom(s, p, 1) # 0

\* removedEvent.slice(0, index - 1) + removedEvent.slice(index), index being
\* the 0-based result.indexOf(event)
RemoveBefore(removedEvent, index) ==
    SliceRange(removedEvent, 0, index - 1) \o Slice(removedEvent, index)

\* case 'event'
RemoveEvent(result, match, event) ==
    IF match.index # 0 /\ includes(match.event, event)
    THEN RemoveBefore(SubSeq(result, 1, match.index - 1)
                          \o SubSeq(result, match.end, Len(result)),
                      IndexOfFrom(result, match.event, 1) - 1)
    ELSE result

RECURSIVE interpolate(_)
RECURSIVE InterpolateFrom(_, _, _, _)

\* the body of partMeta.forEach for one descriptor
InterpolatePart(result, meta, substitution) ==
    IF isTemplateResult(substitution)
    THEN replace(result, meta.substitutionPlaceholder,
                 interpolate(TemplateResultOf(substitution)))
    ELSE IF meta.type \in {"attr", "text"}
    THEN replace(result, meta.substitutionPlaceholder, String(substitution))
    ELSE RemoveEvent(result, reEvent(result), meta.event)

\* partMeta.forEach from descriptor k on
InterpolateFrom(result, partMeta, k, substitutions) ==
    IF k > Len(partMeta) THEN result
    ELSE InterpolateFrom(
             InterpolatePart(result, partMeta[k],
                             At(substitutions, partMeta[k].substitutionIndex + 1)),
             partMeta, k + 1, substitutions)

interpolate(templateResult) ==
    InterpolateFrom(templateResult.templateWithPlaceholders, templateResult.partMeta, 1,
                    templateResult.substitutions)

-----------------------------------------------------------------------------
(* The HTML parser as renderToString uses it: DOMParser.parseFromString for a
   document and template.innerHTML for a fragment. The modes are the
   insertion modes of the tree construction; node 1 is the document or the
   fragment, and in a document node 2 is the html element. *)

\* the elements whose content is text up to their end tag
TextContentTags == {"title", "textarea", "script", "style"}

\* the elements that may stand in the head
HeadTags == {"title", "meta", "link", "style", "script", "base"}

IsStartTagAt(s, i) == Ch(s, i) = "<" /\ i < Len(s) /\ IsLetter(Ch(s, i + 1))

IsEndTagAt(s, i) == StartsWithAt(s, i, "</")

IsDoctypeAt(s, i) == i + 8 <= Len(s) /\ toLowerCase(SubSeq(s, i, i + 8)) = "<!doctype"

TagName(s, i) == toLowerCase(SubSeq(s, i + 1, ScanTo(s, i + 1, TagNameEnd) - 1))

EndTagName(s, i) == toLowerCase(SubSeq(s, i + 2, ScanTo(s, i, {">"}) - 1))

\* the index after the '>' that ends the token at i
AfterTag(s, i) == ScanTo(s, i, {">"}) + 1

\* the attributes of the start tag at i and the index after the tag
TagAttributes(s, i) == ParseAttributes(s, ScanTo(s, i + 1, TagNameEnd), <<>>)

\* the attributes of a repeated html or body start tag that node does not have yet
MergeAttributes(d, node, attributes) ==
    [d EXCEPT ![node].attributes =
        d[node].attributes
            \o SelectSeq(attributes,
                         LAMBDA a : \A k \in 1..Len(d[node].attributes) :
                                        d[node].attributes[k].name # a.name)]

\* the child of the html element with this name, 0 if there is none
HtmlChild(d, name) ==
    IF \E k \in 1..Len(d[2].childNodes) : d[d[2].childNodes[k]].nodeName = name
    THEN CHOOSE n \in Range(d[2].childNodes) : d[n].nodeName = name
    ELSE 0

\* the stack of open elements cut below the last open element called name
PopTo(d, open, name) ==
    IF \E k \in 2..Len(open) : d[open[k]].nodeName = name
    THEN SubSeq(open, 1,
                (CHOOSE k \in 2..Len(open) :
                    /\ d[open[k]].nodeName = name
                    /\ \A x \in (k + 1)..Len(open) : d[open[x]].nodeName # name) - 1)
    ELSE open

\* the index where the text content of the element opened before from ends
TextContentEnd(s, name, from) ==
    IF IndexOfFrom(s, "</" \o name, from) = 0 THEN Len(s) + 1
    ELSE IndexOfFrom(s, "</" \o name, from)

\* d with a text node as the last child of parent, unless the text is empty
AppendTextTo(d, parent, data) ==
    IF data = "" THEN d ELSE AppendNewChild(d, parent, NewNode("text", "#text", data))

RECURSIVE ParseHTMLFrom(_, _, _, _, _)

\* a start tag in the head, in the body or in a fragment: the element is
\* appended to the current node; it becomes the current node unless it is
\* void, and an element with text content takes its text at once
InsertElement(d, open, mode, s, name, tag) ==
    IF name \in voidElements
    THEN ParseHTMLFrom(AppendNewChild(d, Last(open),
                           [NewNode("element", name, "") EXCEPT !.attributes = tag.attributes]),
                       open, mode, s, tag.next)
    ELSE IF name \in TextContentTags
    THEN ParseHTMLFrom(AppendTextTo(AppendNewChild(d, Last(open),
                                        [NewNode("element", name, "")
                                            EXCEPT !.attributes = tag.attributes]),
                                    Len(d) + 1,
                                    SubSeq(s, tag.next, TextContentEnd(s, name, tag.next) - 1)),
                       Append(open, Len(d) + 1), mode, s,
                       TextContentEnd(s, name, tag.next))
    ELSE ParseHTMLFrom(AppendNewChild(d, Last(open),
                           [NewNode("element", name, "") EXCEPT !.attributes = tag.attributes]),
                       Append(open, Len(d) + 1), mode, s, tag.next)

\* a comment at i, appended to parent
InsertComment(d, open, mode, s, i, parent, stop) ==
    ParseHTMLFrom(AppendNewChild(d, parent,
                      NewNode("comment", "#comment", SubSeq(s, i + 4, stop - 1))),
                  open, mode, s, stop + 3)

CommentEnd(s, i) ==
    IF IndexOfFrom(s, "-->", i + 4) = 0 THEN Len(s) + 1 ELSE IndexOfFrom(s, "-->", i + 4)

\* the head element is created: with the attributes of its start tag, or
\* empty when something else implies it
CreateHead(d, attributes) ==
    AppendNewChild(d, 2, [NewNode("element", "head", "") EXCEPT !.attributes = attributes])

CreateBody(d, attributes) ==
    AppendNewChild(d, 2, [NewNode("element", "body", "") EXCEPT !.attributes = attributes])

\* the tokens that are the same in the body and in a fragment
InBody(d, open, mode, s, i) ==
    IF StartsWithAt(s, i, "<!--")
    THEN InsertComment(d, open, mode, s, i, Last(open), CommentEnd(s, i))
    ELSE IF IsDoctypeAt(s, i)
    THEN ParseHTMLFrom(d, open, mode, s, AfterTag(s, i))
    ELSE IF IsEndTagAt(s, i)
    THEN ParseHTMLFrom(d, PopTo(d, open, EndTagName(s, i)), mode, s, AfterTag(s, i))
    ELSE IF IsStartTagAt(s, i)
    THEN InsertElement(d, open, mode, s, TagName(s, i), TagAttributes(s, i))
    ELSE ParseHTMLFrom(AppendTextTo(d, Last(open), SubSeq(s, i, ScanTo(s, i + 1, {"<"}) - 1)),
                       open, mode, s, ScanTo(s, i + 1, {"<"}))

ParseHTMLFrom(d, open, mode, s, i) ==
    CASE mode = "fragment" ->
             IF i > Len(s) THEN d
             ELSE IF IsStartTagAt(s, i) /\ TagName(s, i) \in {"html", "head", "body"}
             THEN ParseHTMLFrom(d, open, mode, s, TagAttributes(s, i).next)
             ELSE IF IsEndTagAt(s, i) /\ EndTagName(s, i) \in {"html", "head", "body"}
             THEN ParseHTMLFrom(d, open, mode, s, AfterTag(s, i))
             ELSE InBody(d, open, mode, s, i)
      [] mode = "beforeHead" ->
             IF i > Len(s)
             THEN ParseHTMLFrom(CreateHead(d, <<>>), open, "afterHead", s, i)
             ELSE IF IsSpace(Ch(s, i))
             THEN ParseHTMLFrom(d, open, mode, s, SkipSpaces(s, i))
             ELSE IF StartsWithAt(s, i, "<!--")
             THEN InsertComment(d, open, mode, s, i, 2, CommentEnd(s, i))
             ELSE IF IsDoctypeAt(s, i)
             THEN ParseHTMLFrom(d, open, mode, s, AfterTag(s, i))
             ELSE IF IsStartTagAt(s, i) /\ TagName(s, i) = "html"
             THEN ParseHTMLFrom(MergeAttributes(d, 2, TagAttributes(s, i).attributes),
                                open, mode, s, TagAttributes(s, i).next)
             ELSE IF IsStartTagAt(s, i) /\ TagName(s, i) = "head"
             THEN ParseHTMLFrom(CreateHead(d, TagAttributes(s, i).attributes),
                                <<1, 2, Len(d) + 1>>, "inHead", s, TagAttributes(s, i).next)
             ELSE IF IsEndTagAt(s, i) /\ EndTagName(s, i) \notin {"html", "head", "body", "br"}
             THEN ParseHTMLFrom(d, open, mode, s, AfterTag(s, i))
             ELSE ParseHTMLFrom(CreateHead(d, <<>>), open, "afterHead", s, i)
      [] mode = "inHead" ->
             IF i > Len(s)
             THEN ParseHTMLFrom(d, <<1, 2>>, "afterHead", s, i)
             ELSE IF IsEndTagAt(s, i) /\ EndTagName(s, i) = "head"
             THEN ParseHTMLFrom(d, <<1, 2>>, "afterHead", s, AfterTag(s, i))
             ELSE IF IsStartTagAt(s, i) /\ TagName(s, i) = "html"
             THEN ParseHTMLFrom(MergeAttributes(d, 2, TagAttributes(s, i).attributes),
                                open, mode, s, TagAttributes(s, i).next)
             ELSE IF IsStartTagAt(s, i) /\ TagName(s, i) = "head"
             THEN ParseHTMLFrom(d, open, mode, s, TagAttributes(s, i).next)
             ELSE IF IsSpace(Ch(s, i))
             THEN ParseHTMLFrom(AppendTextTo(d, Last(open), SubSeq(s, i, SkipSpaces(s, i) - 1)),
                                open, mode, s, SkipSpaces(s, i))
             ELSE IF \/ StartsWithAt(s, i, "<!--")
                     \/ IsDoctypeAt(s, i)
                     \/ IsStartTagAt(s, i) /\ TagName(s, i) \in HeadTags
                     \/ IsEndTagAt(s, i) /\ EndTagName(s, i) \notin {"html", "body", "br"}
             THEN InBody(d, open, mode, s, i)
             ELSE ParseHTMLFrom(d, <<1, 2>>, "afterHead", s, i)
      [] mode = "afterHead" ->
             IF i > Len(s)
             THEN ParseHTMLFrom(CreateBody(d, <<>>), <<1, 2, Len(d) + 1>>, "inBody", s, i)
             ELSE IF IsSpace(Ch(s, i))
             THEN ParseHTMLFrom(AppendTextTo(d, 2, SubSeq(s, i, SkipSpaces(s, i) - 1)),
                                open, mode, s, SkipSpaces(s, i))
             ELSE IF StartsWithAt(s, i, "<!--")
             THEN InsertComment(d, open, mode, s, i, 2, CommentEnd(s, i))
             ELSE IF IsDoctypeAt(s, i)
             THEN ParseHTMLFrom(d, open, mode, s, AfterTag(s, i))
             ELSE IF IsStartTagAt(s, i) /\ TagName(s, i) = "html"
             THEN ParseHTMLFrom(MergeAttributes(d, 2, TagAttributes(s, i).attributes),
                                open, mode, s, TagAttributes(s, i).next)
             ELSE IF IsStartTagAt(s, i) /\ TagName(s, i) = "head"
             THEN ParseHTMLFrom(d, open, mode, s, TagAttributes(s, i).next)
             ELSE IF IsStartTagAt(s, i) /\ TagName(s, i) = "body"
             THEN ParseHTMLFrom(CreateBody(d, TagAttributes(s, i).attributes),
                                <<1, 2, Len(d) + 1>>, "inBody", s, TagAttributes(s, i).next)
             ELSE IF IsEndTagAt(s, i) /\ EndTagName(s, i) \notin {"html", "body", "br"}
             THEN ParseHTMLFrom(d, open, mode, s, AfterTag(s, i))
             ELSE ParseHTMLFrom(CreateBody(d, <<>>), <<1, 2, Len(d) + 1>>, "inBody", s, i)
      [] OTHER ->
             IF i > Len(s) THEN d
             ELSE IF IsStartTagAt(s, i) /\ TagName(s, i) = "html"
             THEN ParseHTMLFrom(MergeAttributes(d, 2, TagAttributes(s, i).attributes),
                                open, mode, s, TagAttributes(s, i).next)
             ELSE IF IsStartTagAt(s, i) /\ TagName(s, i) = "body"
             THEN ParseHTMLFrom(MergeAttributes(d, HtmlChild(d, "body"),
                                                TagAttributes(s, i).attributes),
                                open, mode, s, TagAttributes(s, i).next)
             ELSE IF IsStartTagAt(s, i) /\ TagName(s, i) = "head"
             THEN ParseHTMLFrom(d, open, mode, s, TagAttributes(s, i).next)
             ELSE IF IsEndTagAt(s, i) /\ EndTagName(s, i) \in {"html", "head", "body"}
             THEN ParseHTMLFrom(d, open, mode, s, AfterTag(s, i))
             ELSE InBody(d, open, mode, s, i)

\* template.innerHTML = markup; template.content is node 1
ParseFragment(markup) ==
    ParseHTMLFrom(<<NewNode("fragment", "#document-fragment", "")>>, <<1>>, "fragment",
                  markup, 1)

\* the quotation marks of the doctype token at i
DoctypeQuotes(s, i) == {k \in i..(AfterTag(s, i) - 1) : Ch(s, k) = "\""}

\* the string between the n-th and the (n+1)-th of the quotes, "" without them
Quoted(s, quotes, n) ==
    IF Cardinality(quotes) < n + 1 THEN ""
    ELSE SubSeq(s,
                (CHOOSE a \in quotes : Cardinality({q \in quotes : q < a}) = n - 1) + 1,
                (CHOOSE b \in quotes : Cardinality({q \in quotes : q < b}) = n) - 1)

\* a DocumentType node: nodeName is its name, and its identifiers are kept as
\* the attributes publicId and systemId of the heap's node
DocumentType(name, publicId, systemId) ==
    [NewNode("doctype", name, "")
        EXCEPT !.attributes = <<[name |-> "publicId", value |-> publicId],
                                [name |-> "systemId", value |-> systemId]>>]

\* the doctype node the parser makes of the doctype token at i
ParsedDoctype(s, i) ==
    DocumentType(toLowerCase(SubSeq(s, SkipSpaces(s, i + 9),
                                    ScanTo(s, SkipSpaces(s, i + 9), SpaceChars \cup {">"}) - 1)),
                 Quoted(s, DoctypeQuotes(s, i), 1),
                 Quoted(s, DoctypeQuotes(s, i), 3))

\* the doctype of the document, 0 (null) if it has none
doctype(d) ==
    IF \E k \in 1..Len(d[1].childNodes) : d[d[1].childNodes[k]].nodeType = "doctype"
    THEN CHOOSE n \in Range(d[1].childNodes) : d[n].nodeType = "doctype"
    ELSE 0

\* doc.insertBefore(newDocType, doc.documentElement)
InsertDoctype(d, newDocType) ==
    [Append(d, [newDocType EXCEPT !.parentNode = 1])
        EXCEPT ![1].childNodes =
            SubSeq(@, 1, IndexIn(@, 2) - 1) \o <<Len(d) + 1>> \o SubSeq(@, IndexIn(@, 2), Len(@))]

\* a document with its html element and nothing else
EmptyDocument ==
    <<[NewNode("document", "#document", "") EXCEPT !.childNodes = <<2>>],
      [NewNode("element", "html", "") EXCEPT !.parentNode = 1]>>

\* new DOMParser().parseFromString(markup, 'text/html'): node 1 of the result
ParseDocument(markup) ==
    ParseHTMLFrom(IF IsDoctypeAt(markup, SkipSpaces(markup, 1))
                  THEN InsertDoctype(EmptyDocument,
                                     ParsedDoctype(markup, SkipSpaces(markup, 1)))
                  ELSE EmptyDocument,
                  <<1, 2>>, "beforeHead", markup, 1)

-----------------------------------------------------------------------------
(* renderToString.ts: renderToString, called without options where no custom
   element is defined *)

\* /^\s*<html[\s>]/gim .test(s): with the m flag ^ is the start of any line
reIsDocument(s) ==
    \E i \in 1..Len(s) :
        /\ i = 1 \/ Ch(s, i - 1) = "\n"
        /\ SkipSpaces(s, i) + 5 <= Len(s)
        /\ toLowerCase(SubSeq(s, SkipSpaces(s, i), SkipSpaces(s, i) + 4)) = "<html"
        /\ Ch(s, SkipSpaces(s, i) + 5) \in SpaceChars \cup {">"}

\* the identifiers of docTypematch from k on, k being the index after the
\* white space that follows the name: (PUBLIC|SYSTEM), white space, a quoted
\* string, optionally white space and a second quoted string, then \s*>
DoctypeIdentifiers(s, k, first, close) ==
    IF ~(IsSpace(Ch(s, k - 1)) /\ k + 6 <= Len(s)
           /\ toLowerCase(SubSeq(s, k, k + 5)) \in {"public", "system"}
           /\ IsSpace(Ch(s, k + 6)) /\ first <= Len(s) /\ Ch(s, first) = "\""
           /\ close <= Len(s))
    THEN [matched |-> FALSE, publicId |-> "", systemId |-> ""]
    ELSE IF /\ SkipSpaces(s, close + 1) > close + 1
            /\ SkipSpaces(s, close + 1) <= Len(s)
            /\ Ch(s, SkipSpaces(s, close + 1)) = "\""
            /\ ScanTo(s, SkipSpaces(s, close + 1) + 1, {"\""}) <= Len(s)
            /\ SkipSpaces(s, ScanTo(s, SkipSpaces(s, close + 1) + 1, {"\""}) + 1) <= Len(s)
            /\ Ch(s, SkipSpaces(s, ScanTo(s, SkipSpaces(s, close + 1) + 1, {"\""}) + 1)) = ">"
    THEN [matched |-> TRUE,
          publicId |-> SubSeq(s, first + 1, close - 1),
          systemId |-> SubSeq(s, SkipSpaces(s, close + 1) + 1,
                              ScanTo(s, SkipSpaces(s, close + 1) + 1, {"\""}) - 1)]
    ELSE [matched |-> SkipSpaces(s, close + 1) <= Len(s) /\ Ch(s, SkipSpaces(s, close + 1)) = ">",
          publicId |-> SubSeq(s, first + 1, close - 1),
          systemId |-> ""]

\* the name of docTypematch from n on and what follows it
DoctypeName(s, n, nameEnd) ==
    IF nameEnd = n \/ nameEnd > Len(s)
    THEN [matched |-> FALSE, name |-> "", publicId |-> "", systemId |-> ""]
    ELSE IF SkipSpaces(s, nameEnd) <= Len(s) /\ Ch(s, SkipSpaces(s, nameEnd)) = ">"
    THEN [matched |-> TRUE, name |-> SubSeq(s, n, nameEnd - 1),
          publicId |-> "", systemId |-> ""]
    ELSE [name |-> SubSeq(s, n, nameEnd - 1)]
             @@ DoctypeIdentifiers(s, SkipSpaces(s, nameEnd),
                                   SkipSpaces(s, SkipSpaces(s, nameEnd) + 6),
                                   ScanTo(s, SkipSpaces(s, SkipSpaces(s, nameEnd) + 6) + 1,
                                          {"\""}))

\* templateContent.match(/^\s*<!DOCTYPE\s+([^\s>]+)(?:...)?\s*>/i): groups 1,
\* 3 and 4 as name, publicId and systemId; matched is FALSE for null
docTypematch(s) ==
    IF IsDoctypeAt(s, SkipSpaces(s, 1))
          /\ SkipSpaces(s, 1) + 9 <= Len(s) /\ IsSpace(Ch(s, SkipSpaces(s, 1) + 9))
    THEN DoctypeName(s, SkipSpaces(s, SkipSpaces(s, 1) + 9),
                     ScanTo(s, SkipSpaces(s, SkipSpaces(s, 1) + 9), SpaceChars \cup {">"}))
    ELSE [matched |-> FALSE, name |-> "", publicId |-> "", systemId |-> ""]

\* the parser's doctype replaced by the one made of the match
ReplaceDoctype(doc, match) ==
    InsertDoctype(IF doctype(doc) # 0 THEN Detach(doc, doctype(doc)) ELSE doc,
                  DocumentType(match.name, match.publicId, match.systemId))

\* the document branch: the parsed document with the doctype of the markup
DocumentOf(templateContent, match) ==
    IF match.matched THEN ReplaceDoctype(ParseDocument(templateContent), match)
    ELSE ParseDocument(templateContent)

\* renderToString from the interpolated markup on; no element of the tree has
\* a definition in the registry, so that the options of the serializer are
\* undefined
RenderContent(templateContent) ==
    IF reIsDocument(templateContent)
    THEN [templateContent |-> templateContent,
          parsedAs |-> "document",
          output |-> serializeHTMLfragment(
                         [dom |-> DocumentOf(templateContent, docTypematch(templateContent)),
                          shadows |-> <<>>], 1, NoOptions)]
    ELSE [templateContent |-> templateContent,
          parsedAs |-> "fragment",
          output |-> serializeHTMLfragment(
                         [dom |-> ParseFragment(templateContent), shadows |-> <<>>],
                         1, NoOptions)]

renderToString(templateResult) == RenderContent(interpolate(templateResult))

\* the scalars the templates are called with
StringScalars == {Value("string", "a"), Value("number", "1"), Value("string", "$&")}

Handlers == {Value("function", "eventHandler"), Value("function", "otherHandler")}

\* html`<b>${v}</b>` for every v of values
Nested(values) == {TemplateValue(7, <<v>>) : v \in values}

\* what a text slot is given: a scalar or a nested template result two deep
TextValues == StringScalars \cup Nested(StringScalars) \cup Nested(Nested(StringScalars))

Languages == {Value("string", "en"), Value("string", "sv")}

Titles == {Value("string", "test"), Value("string", "a&b")}

\* scalars that hold the characters of markup
MarkupScalars == {Value("string", "<i>"), Value("string", "a&b"), Value("string", "a>")}

\* arrays of scalars
ScalarLists ==
    {ArrayValue(<<>>), ArrayValue(<<Value("string", "a")>>),
     ArrayValue(<<Value("string", "a"), Value("number", "1")>>)}

\* the values of the slots of a call site, slot by slot
StringSlotValues(site) ==
    CASE site \in 1..4 -> <<Handlers>>
      [] site = 5 -> <<StringScalars, Handlers>>
      [] site = 6 -> <<StringScalars, TextValues, TextValues>>
      [] site = 7 -> <<TextValues \cup MarkupScalars \cup ScalarLists>>
      [] site = 11 -> <<Languages, StringScalars>>
      [] OTHER -> <<Languages, Titles>>

InitString ==
    stringRendered = [called |-> FALSE, site |-> 0, substitutions |-> <<>>,
                templateContent |-> "", parsedAs |-> "", output |-> ""]

\* renderToString(html`...`) at a call site
RenderToString(site, substitutions) ==
    /\ ~stringRendered.called
    /\ \E r \in {renderToString(TemplateResultOf(TemplateValue(site, substitutions)))} :
          stringRendered' = [called |-> TRUE, site |-> site,
                             substitutions |-> substitutions,
                             templateContent |-> r.templateContent,
                             parsedAs |-> r.parsedAs,
                             output |-> r.output]

-----------------------------------------------------------------------------
(* The program around the serializer: a tree is built under a container
   element with the DOM's operations and then serialized *)

\* the init dictionary of attachShadow
ShadowRootInit(mode, delegatesFocus, serializable, clonable) ==
    [mode |-> mode, delegatesFocus |-> delegatesFocus,
     serializable |-> serializable, clonable |-> clonable]

NoCall == [called |-> FALSE, node |-> 0, options |-> NoOptions, output |-> ""]

InitSerialize ==
    /\ tree = [dom |-> <<NewNode("element", "div", "")>>, shadows |-> <<>>]
    /\ serialized = NoCall

\* the nodes that take children
ParentNodes(t) == {n \in 1..Len(t.dom) : t.dom[n].nodeType \in {"element", "fragment"}}

ElementNodes(t) == {n \in 1..Len(t.dom) : IsElement(t, n)}

\* the shadow roots attached so far
ShadowRoots(t) == {t.shadows[h].root : h \in DOMAIN t.shadows}

\* parent.appendChild(document.createElement(tag))
AppendElement(parent, tag) ==
    /\ ~serialized.called
    /\ Len(tree.dom) < MaxNodes
    /\ tree' = [tree EXCEPT !.dom = AppendNewChild(@, parent, NewNode("element", tag, ""))]
    /\ UNCHANGED serialized

\* parent.appendChild(document.createTextNode(data))
AppendText(parent, data) ==
    /\ ~serialized.called
    /\ Len(tree.dom) < MaxNodes
    /\ tree' = [tree EXCEPT !.dom = AppendNewChild(@, parent, NewNode("text", "#text", data))]
    /\ UNCHANGED serialized

\* text.data += c
AppendData(text, c) ==
    /\ ~serialized.called
    /\ Len(tree.dom[text].data) < MaxDataLen
    /\ tree' = [tree EXCEPT !.dom[text].data = @ \o c]
    /\ UNCHANGED serialized

\* element.setAttribute(name, value)
SetAttribute(element, name, value) ==
    /\ ~serialized.called
    /\ tree' = [tree EXCEPT !.dom = SetAttr(@, element, name, value)]
    /\ UNCHANGED serialized

\* host.attachShadow(init): the shadow root is the new last node of the heap
AttachShadow(host, init) ==
    /\ ~serialized.called
    /\ Len(tree.dom) < MaxNodes
    /\ host \notin DOMAIN tree.shadows
    /\ tree' = [dom |-> Append(tree.dom, NewNode("fragment", "#document-fragment", "")),
                shadows |-> (host :> [root |-> Len(tree.dom) + 1,
                                      mode |-> init.mode,
                                      delegatesFocus |-> init.delegatesFocus,
                                      serializable |-> init.serializable,
                                      clonable |-> init.clonable]) @@ tree.shadows]
    /\ UNCHANGED serialized

\* the tree after serializeHTMLfragment(node, options), were the children of
\* node moved out of it while they are serialized
TreeAfterSerializeMovingChildren(t, node, options) ==
    [t EXCEPT !.dom = DetachEach(@, @[node].childNodes)]

\* the tree after serializeHTMLfragment(node, options): the function reads
\* nodeType, tagName, shadowRoot, childNodes, attributes and data and assigns
\* only to its local variables (node, serializeResult, fragment)
TreeAfterSerialize(t, node, options) == t

\* serializeHTMLfragment(node, options)
Serialize(node, options) ==
    /\ serialized' = [called |-> TRUE, node |-> node, options |-> options,
                      output |-> serializeHTMLfragment(tree, node, options)]
    /\ tree' = TreeAfterSerialize(tree, node, options)

-----------------------------------------------------------------------------
(* renderToString.ts with options: the custom element registry, the renderer
   and the adopted stylesheets. A registry is the set of its definitions; a
   definition attaches an open shadow root holding <slot></slot> in its
   connectedCallback and adopts stylesheets, each given by its css text *)

\* the template literals with a custom element, one per call site
ElementTemplateStrings ==
    << <<"<x-el>Hi</x-el>">>,
       <<"<div><x-el>Hi</x-el></div>">>,
       <<"<!DOCTYPE html>\n<html><head></head><body><x-el>Hi</x-el></body></html>">> >>

\* customElements.define(name, class extends HTMLElement { connectedCallback() { ... } })
Definition(name, serializable, adoptedStyleSheets) ==
    [name |-> name, serializable |-> serializable, adoptedStyleSheets |-> adoptedStyleSheets]

\* RenderToStringOptions; hasCustomElements tells whether customElements is given
RenderToStringOptions(hasCustomElements, registry, renderer, adoptedStyleSheets) ==
    [hasCustomElements |-> hasCustomElements, customElements |-> registry,
     renderer |-> renderer, serializeShadowRootAdoptedStyleSheets |-> adoptedStyleSheets]

\* customElements.get(name): the set of the definitions of that name (none or one)
get(registry, name) == {definition \in registry : definition.name = name}

\* customTagPattern.test(tagName.toLowerCase()): [a-z]+-[a-z]+ anywhere in the name
customTagPattern(tagName) ==
    \E i \in 1..(Len(tagName) - 2) :
        /\ includes(LowerChars, Ch(tagName, i))
        /\ Ch(tagName, i + 1) = "-"
        /\ includes(LowerChars, Ch(tagName, i + 2))

\* the sibling after node, 0 for none
nextSibling(d, node) ==
    IF d[node].parentNode = 0 THEN 0
    ELSE LET kids == d[d[node].parentNode].childNodes IN
         IF IndexIn(kids, node) < Len(kids) THEN kids[IndexIn(kids, node) + 1] ELSE 0

\* the node after temporary when its children are passed over: the next
\* sibling of its nearest inclusive ancestor that has one, 0 at the root and
\* above a node without parent
RECURSIVE NextSkippingChildren(_, _, _)
NextSkippingChildren(d, root, temporary) ==
    IF temporary = 0 \/ temporary = root THEN 0
    ELSE IF nextSibling(d, temporary) # 0 THEN nextSibling(d, temporary)
    ELSE NextSkippingChildren(d, root, d[temporary].parentNode)

\* walker.nextNode() from currentNode: the next element in tree order under
\* root that the filter accepts, 0 for null
RECURSIVE nextNode(_, _, _)
nextNode(d, root, currentNode) ==
    LET node == IF d[currentNode].childNodes # <<>> THEN d[currentNode].childNodes[1]
                ELSE NextSkippingChildren(d, root, currentNode)
    IN  IF node = 0 THEN 0
        ELSE IF d[node].nodeType = "element" /\ customTagPattern(d[node].nodeName)
        THEN node
        ELSE nextNode(d, root, node)

\* new definition() appended to the body of a new document: the element is
\* connected, its connectedCallback attaches the shadow root and fills it.
\* The element is node Len(t.dom) + 1 of the result, the shadow root the node
\* after it.
Construct(t, definition) ==
    LET fakeElement == Len(t.dom) + 1
        shadow == Len(t.dom) + 2
        d1 == t.dom \o <<NewNode("element", definition.name, ""),
                         NewNode("fragment", "#document-fragment", "")>>
    IN  [dom |-> AppendNewChild(d1, shadow, NewNode("element", "slot", "")),
         shadows |-> (fakeElement :> [root |-> shadow, mode |-> "open",
                                      delegatesFocus |-> FALSE,
                                      serializable |-> definition.serializable,
                                      clonable |-> FALSE,
                                      adoptedStyleSheets |-> definition.adoptedStyleSheets])
                         @@ t.shadows]

\* fakeElement.append(...element.childNodes); element.replaceWith(fakeElement)
ReplaceWithFake(d, element, fakeElement) ==
    LET moved == d[element].childNodes
        parent == d[element].parentNode
        at == IndexIn(d[parent].childNodes, element)
        d1 == InsertAt([d EXCEPT ![element].childNodes = <<>>], fakeElement, moved, 1)
    IN  IF parent = 0 THEN d1
        ELSE InsertAt(Detach(d1, element), parent, <<fakeElement>>, at)

\* the fake element in the place of element, and the options pushed for it;
\* made is the tree with the fake element, its last element but two nodes
Replaced(walk, element, made, fakeElement) ==
    [t |-> [made EXCEPT !.dom = ReplaceWithFake(@, element, fakeElement)],
     options |-> Append(walk.options,
                        GetHTMLOptions(made.shadows[fakeElement].serializable,
                                       {made.shadows[fakeElement].root}))]

\* the body of the walker's loop for element: walk is the tree and the
\* _serializeOptions pushed so far. The definitions attach their shadow root
\* when connected, so that the element has no shadow root after the upgrade
\* and the branch with the fake element is taken.
UpgradeElement(walk, element, registry) ==
    IF get(registry, walk.t.dom[element].nodeName) = {} THEN walk
    ELSE Replaced(walk, element,
                  Construct(walk.t,
                            CHOOSE x \in get(registry, walk.t.dom[element].nodeName) : TRUE),
                  Len(walk.t.dom) + 1)

\* while (walker.nextNode()) { ... } from currentNode on
RECURSIVE WalkCustomElements(_, _, _, _)
WalkCustomElements(walk, root, currentNode, registry) ==
    IF nextNode(walk.t.dom, root, currentNode) = 0 THEN walk
    ELSE WalkCustomElements(
             UpgradeElement(walk, nextNode(walk.t.dom, root, currentNode), registry),
             root, nextNode(walk.t.dom, root, currentNode), registry)

\* _serializeOptions.reduce(..., undefined): undefined is NoOptions
RECURSIVE ReduceOptions(_, _)
ReduceOptions(accumulator, rest) ==
    IF rest = <<>> THEN accumulator
    ELSE ReduceOptions(
             GetHTMLOptions(IF Head(rest).serializableShadowRoots THEN TRUE
                            ELSE accumulator.serializableShadowRoots,
                            accumulator.shadowRoots \cup Head(rest).shadowRoots),
             Tail(rest))

\* shadow.insertBefore(styleElement, shadow.firstChild), the style element
\* made new with the rules of sheet as its textContent
InsertStyle(t, shadow, sheet) ==
    LET styleElement == Len(t.dom) + 1
        d1 == Append(t.dom, NewNode("element", "style", ""))
        d2 == IF sheet = "" THEN d1
              ELSE AppendNewChild(d1, styleElement, NewNode("text", "#text", sheet))
    IN  [t EXCEPT !.dom = InsertAt(d2, shadow, <<styleElement>>, 1)]

\* shadow.adoptedStyleSheets.map(...).forEach(...): the sheets in order
RECURSIVE InsertStyles(_, _, _)
InsertStyles(t, shadow, sheets) ==
    IF sheets = <<>> THEN t
    ELSE InsertStyles(InsertStyle(t, shadow, Head(sheets)), shadow, Tail(sheets))

\* insertStyleNodesFromAdoptedStylesOnShadowRoots(node)
insertStyleNodesFromAdoptedStylesOnShadowRoots(t, node) ==
    IF IsElement(t, node) /\ shadowRoot(t, node) # 0
    THEN InsertStyles(t, shadowRoot(t, node), t.shadows[node].adoptedStyleSheets)
    ELSE t

\* the same for every node of nodes
RECURSIVE InsertStylesForEach(_, _)
InsertStylesForEach(t, nodes) ==
    IF nodes = <<>> THEN t
    ELSE InsertStylesForEach(insertStyleNodesFromAdoptedStylesOnShadowRoots(t, Head(nodes)),
                             Tail(nodes))

\* patchShadowHostNodesWithInlineStyles(node): the node and its children
patchShadowHostNodesWithInlineStyles(t, node) ==
    InsertStylesForEach(insertStyleNodesFromAdoptedStylesOnShadowRoots(t, node),
                        t.dom[node].childNodes)

\* what options.renderer returns: the program's renderer gives this string
\* for every node
RendererOutput == "rendered"

\* the registry the call resolves custom elements against, which is
\* self.customElements from the call on
RegistryOf(options, global) ==
    IF options.hasCustomElements THEN options.customElements ELSE global

\* self.customElements when the call returns, were the registry of before the
\* call put back
RegistryAfterRestored(options, global) == global

\* self.customElements when the call returns: the assignment of line 137 is
\* the only one
RegistryAfter(options, global) == RegistryOf(options, global)

\* the tree that is serialized and the options of the serializer; walk is
\* what the walker's loop left
Patched(walk, options) ==
    [t |-> IF options.serializeShadowRootAdoptedStyleSheets
           THEN patchShadowHostNodesWithInlineStyles(walk.t, 1)
           ELSE walk.t,
     serializeOptions |-> ReduceOptions(NoOptions, walk.options)]

\* the fragment after the walker's loop and the patch
RenderedTree(fragment, options, registry) ==
    Patched(WalkCustomElements([t |-> [dom |-> fragment, shadows |-> <<>>], options |-> <<>>],
                               1, 1, registry),
            options)

\* serializeHTMLfragment(fragment, serializeOptions)
SerializeRendered(rendered) ==
    serializeHTMLfragment(rendered.t, 1, rendered.serializeOptions)

\* the fragment: the parsed document or the content of the template
FragmentOf(templateContent) ==
    IF reIsDocument(templateContent)
    THEN DocumentOf(templateContent, docTypematch(templateContent))
    ELSE ParseFragment(templateContent)

\* renderToString(templateResult, options) with self.customElements = global:
\* what it returns and what self.customElements is afterwards
renderToStringWithOptions(templateResult, options, global) ==
    [output |-> IF options.renderer THEN RendererOutput
                ELSE SerializeRendered(
                         RenderedTree(FragmentOf(interpolate(templateResult)), options,
                                      RegistryOf(options, global))),
     customElements |-> RegistryAfter(options, global)]

\* html`...` at a call site without slots
ElementTemplateResult(site) ==
    [partMeta |-> createTemplateCacheEntry(ElementTemplateStrings[site]).partMeta,
     substitutions |-> <<>>,
     templateWithPlaceholders |->
         createTemplateCacheEntry(ElementTemplateStrings[site]).templateWithPlaceholders]

\* the definitions of x-el: without stylesheet, with one, with two
Definitions ==
    {Definition("x-el", FALSE, <<>>), Definition("x-el", TRUE, <<"a{}">>),
     Definition("x-el", TRUE, <<"a{}", "b{}">>)}

\* the registries of the program: an empty one, and one per definition
Registries == {{}} \cup {{definition} : definition \in Definitions}

\* the options a call is given
AllRenderToStringOptions ==
    {RenderToStringOptions(FALSE, {}, renderer, sheets) :
         renderer \in BOOLEAN, sheets \in BOOLEAN}
    \cup {RenderToStringOptions(TRUE, registry, renderer, sheets) :
              registry \in Registries, renderer \in BOOLEAN, sheets \in BOOLEAN}

\* before any call self.customElements holds the definition without
\* stylesheet
InitElements ==
    /\ customElements = {Definition("x-el", FALSE, <<>>)}
    /\ elementRendered = [count |-> 0, site |-> 0,
                          options |-> RenderToStringOptions(FALSE, {}, FALSE, FALSE),
                          output |-> "", supplied |-> {Definition("x-el", FALSE, <<>>)}]

\* renderToString(html`...`, options) at a call site
RenderToStringWithOptions(site, options) ==
    /\ elementRendered.count < MaxStringCalls
    /\ \E r \in {renderToStringWithOptions(ElementTemplateResult(site), options,
                                            customElements)} :
           /\ customElements' = r.customElements
           /\ elementRendered' =
                  [count |-> elementRendered.count + 1, site |-> site, options |-> options,
                   output |-> r.output,
                   supplied |-> IF options.hasCustomElements THEN options.customElements
                                ELSE elementRendered.supplied]

-----------------------------------------------------------------------------
(* Specifications *)

Init ==
    InitHtml /\ InitClassify /\ InitRender /\ InitSerialize /\ InitString /\ InitElements

NextHtml ==
    \E site \in DOMAIN TemplateStrings :
        \E substitutions \in SeqsOfLen(HtmlValues, Len(TemplateStrings[site]) - 1) :
            Html(site, substitutions) /\ UNCHANGED <<classifyVars, renderVars, serializeVars, stringVars, elementVars>>

\* the program as a sequence of tagged-template evaluations
SpecHtml == Init /\ [][NextHtml]_vars

NextClassify ==
    \E c \in SegmentAlphabet : Type(c) /\ UNCHANGED <<htmlVars, renderVars, serializeVars, stringVars, elementVars>>

\* the slot classification applied to every segment over SegmentAlphabet
SpecClassify == Init /\ [][NextClassify]_vars

\* a nested template result with two top-level nodes
Pair(n) == TemplateValue(11, <<Value("string", n)>>)

\* the values a program passes at the slots of the call sites whose slots
\* have siblings
SiblingSlotValues(site) ==
    CASE site = 9 -> <<Lists>>
      [] site = 10 -> <<Lists \cup {Pair("1")}, Scalars>>
      [] OTHER -> <<Lists \cup {Pair("1")}, Scalars>>

NextSiblings ==
    \E site \in {9, 10, 12} :
        \E substitutions \in Tuples(SiblingSlotValues(site)) :
            Render(site, substitutions) /\ UNCHANGED <<htmlVars, classifyVars, serializeVars, stringVars, elementVars>>

\* the program as a sequence of render calls of one template whose slots have
\* siblings
SpecSiblings == Init /\ [][NextSiblings]_vars

NextRender ==
    \E site \in 1..6 :
        \E substitutions \in Tuples(SlotValues(site)) :
            Render(site, substitutions) /\ UNCHANGED <<htmlVars, classifyVars, serializeVars, stringVars, elementVars>>

\* the program as a sequence of render calls of one template into the container
SpecRender == Init /\ [][NextRender]_vars

NextString ==
    \E site \in DOMAIN StringTemplateStrings :
        \E substitutions \in Tuples(StringSlotValues(site)) :
            /\ RenderToString(site, substitutions)
            /\ UNCHANGED <<htmlVars, classifyVars, renderVars, serializeVars, elementVars>>

\* the program as one renderToString call of any call site with any values
SpecString == Init /\ [][NextString]_vars

NextElements ==
    \E site \in DOMAIN ElementTemplateStrings :
        \E options \in AllRenderToStringOptions :
            /\ RenderToStringWithOptions(site, options)
            /\ UNCHANGED <<htmlVars, classifyVars, renderVars, serializeVars, stringVars>>

\* the program as a sequence of renderToString calls with options on
\* templates that hold a custom element
SpecElements == Init /\ [][NextElements]_vars

\* the strings over alphabet of length at most n
Strings(alphabet, n) ==
    UNION {{join(q) : q \in SeqsOfLen(alphabet, k)} : k \in 0..n}

\* the elements of the trees with shadow roots
ShadowTags == {"open-element", "p"}

\* what the hosts pass to attachShadow
ShadowInits ==
    {ShadowRootInit("closed", FALSE, TRUE, FALSE),
     ShadowRootInit("open", FALSE, FALSE, FALSE),
     ShadowRootInit("open", TRUE, FALSE, FALSE),
     ShadowRootInit("open", FALSE, TRUE, FALSE),
     ShadowRootInit("open", TRUE, TRUE, FALSE),
     ShadowRootInit("open", TRUE, TRUE, TRUE)}

NextShadow ==
    \/ \E parent \in ParentNodes(tree) : \E tag \in ShadowTags :
           AppendElement(parent, tag) /\ UNCHANGED <<htmlVars, classifyVars, renderVars, stringVars, elementVars>>
    \/ \E host \in ElementNodes(tree) : \E init \in ShadowInits :
           AttachShadow(host, init) /\ UNCHANGED <<htmlVars, classifyVars, renderVars, stringVars, elementVars>>
    \/ \E node \in ParentNodes(tree) : \E serializableShadowRoots \in BOOLEAN :
           \E shadowRoots \in SUBSET ShadowRoots(tree) :
               /\ Serialize(node, GetHTMLOptions(serializableShadowRoots, shadowRoots))
               /\ UNCHANGED <<htmlVars, classifyVars, renderVars, stringVars, elementVars>>

\* trees of shadow hosts, serialized from any node under any options
SpecShadow == Init /\ [][NextShadow]_vars

\* the elements that hold the text nodes
TextTags == {"p", "script", "style", "textarea", "title"}

TextAlphabet == {"&", "<", ">", NBSP, "a"}

NextText ==
    \/ \E tag \in TextTags :
           /\ Len(tree.dom) < MaxNodes - 1
           /\ AppendElement(1, tag)
           /\ UNCHANGED <<htmlVars, classifyVars, renderVars, stringVars, elementVars>>
    \/ \E parent \in ElementNodes(tree) :
           /\ tree.dom[parent].childNodes = <<>>
           /\ AppendText(parent, "")
           /\ UNCHANGED <<htmlVars, classifyVars, renderVars, stringVars, elementVars>>
    \/ \E text \in 1..Len(tree.dom) : \E c \in TextAlphabet :
           /\ tree.dom[text].nodeType = "text"
           /\ AppendData(text, c)
           /\ UNCHANGED <<htmlVars, classifyVars, renderVars, stringVars, elementVars>>
    \/ Serialize(1, NoOptions) /\ UNCHANGED <<htmlVars, classifyVars, renderVars, stringVars, elementVars>>

\* text nodes under the kinds of element, serialized from the container
SpecText == Init /\ [][NextText]_vars

\* the elements that carry the attributes
AttributeTags == {"p"}

AttributeNames == {"id", "title"}

AttributeAlphabet == {"&", "\"", "<", ">", "'"}

AttributeValues == Strings(AttributeAlphabet, MaxDataLen)

\* the attributes of the whole tree
AttributeCount(t) == SeqSum([n \in 1..Len(t.dom) |-> Len(t.dom[n].attributes)])

HasAttribute(t, element, name) ==
    \E k \in 1..Len(t.dom[element].attributes) : t.dom[element].attributes[k].name = name

NextAttribute ==
    \/ \E parent \in ElementNodes(tree) : \E tag \in AttributeTags :
           /\ Len(tree.dom) < MaxNodes - 1
           /\ AppendElement(parent, tag)
           /\ UNCHANGED <<htmlVars, classifyVars, renderVars, stringVars, elementVars>>
    \/ \E element \in ElementNodes(tree) \ {1} : \E name \in AttributeNames :
           \E value \in AttributeValues :
               /\ AttributeCount(tree) < MaxAttributes
               /\ ~HasAttribute(tree, element, name)
               /\ SetAttribute(element, name, value)
               /\ UNCHANGED <<htmlVars, classifyVars, renderVars, stringVars, elementVars>>
    \/ Serialize(1, NoOptions) /\ UNCHANGED <<htmlVars, classifyVars, renderVars, stringVars, elementVars>>

\* elements with attributes, serialized from the container
SpecAttribute == Init /\ [][NextAttribute]_vars

\* the elements among which the void and the obsolete ones stand
VoidTags == {"p", "br", "img", "param", "keygen"}

NextVoid ==
    \/ \E parent \in ElementNodes(tree) : \E tag \in VoidTags :
           AppendElement(parent, tag) /\ UNCHANGED <<htmlVars, classifyVars, renderVars, stringVars, elementVars>>
    \/ \E parent \in ElementNodes(tree) :
           AppendText(parent, "a") /\ UNCHANGED <<htmlVars, classifyVars, renderVars, stringVars, elementVars>>
    \/ \E element \in ElementNodes(tree) \ {1} :
           /\ ~HasAttribute(tree, element, "id")
           /\ SetAttribute(element, "id", "a")
           /\ UNCHANGED <<htmlVars, classifyVars, renderVars, stringVars, elementVars>>
    \/ \E node \in ElementNodes(tree) :
           Serialize(node, NoOptions) /\ UNCHANGED <<htmlVars, classifyVars, renderVars, stringVars, elementVars>>

\* void and obsolete elements with attributes and children, serialized from any element
SpecVoid == Init /\ [][NextVoid]_vars

-----------------------------------------------------------------------------
(* Claims about html *)

\* C8: two html calls with the same strings array return the identical partMeta
\* list and the identical templateWithPlaceholders, the compile step runs at most
\* once per strings array, every result carries the substitutions of its own
\* call, and a call with another strings array neither returns nor alters the
\* compiled entry of this one.
C8_CompiledOncePerStringsArray ==
    /\ \A s \in DOMAIN compileCount : compileCount[s] <= 1
    /\ \A i \in 1..Len(results) :
          LET r == results[i] IN
          /\ r.result.substitutions = r.substitutions
          /\ r.template \in DOMAIN templateCache
          /\ r.result.partMetaRef = templateCache[r.template].partMetaRef
          /\ r.result.partMeta = templateCache[r.template].partMeta
          /\ r.result.templateWithPlaceholders =
                templateCache[r.template].templateWithPlaceholders
          /\ \A j \in 1..Len(results) :
                (r.result.partMetaRef = results[j].result.partMetaRef)
                    <=> (r.template = results[j].template)

C8_Witness ==
    \E i, j, k \in 1..Len(results) :
        /\ i < j
        /\ results[i].template = results[j].template
        /\ results[i].substitutions # results[j].substitutions
        /\ results[k].template # results[i].template
        /\ i < k /\ k < j

\* the segments with descriptor i's token between segment i and segment i+1
RECURSIVE Interleave(_, _)
Interleave(strings, meta) ==
    IF Len(strings) = 1 THEN strings[1]
    ELSE strings[1] \o meta[1].substitutionPlaceholder
             \o Interleave(Tail(strings), Tail(meta))

\* C9: a strings array of n+1 segments compiles to exactly n descriptors in
\* literal order, descriptor i has substitutionIndex i, the placeholder tokens of
\* one compiled template are pairwise distinct, and templateWithPlaceholders is
\* the segments joined with descriptor i's token after segment i.
C9_DescriptorsFollowTheLiteral ==
    \A s \in DOMAIN templateCache :
        LET e == templateCache[s]
            strings == TemplateStrings[s]
        IN  /\ Len(e.partMeta) = Len(strings) - 1
            /\ \A i \in 1..Len(e.partMeta) : e.partMeta[i].substitutionIndex = i - 1
            /\ \A i, j \in 1..Len(e.partMeta) :
                  i # j => e.partMeta[i].substitutionPlaceholder
                              # e.partMeta[j].substitutionPlaceholder
            /\ e.templateWithPlaceholders = Interleave(strings, e.partMeta)

C9_Witness ==
    /\ 1 \in DOMAIN templateCache
    /\ templateCache[1].templateWithPlaceholders = "<p>hi</p>"
    /\ 5 \in DOMAIN templateCache
    /\ templateCache[5].templateWithPlaceholders
          = "<p><!--$text-0$--></p><p><!--$text-1$--></p>"

\* the name that stands before the '=' at e: the run of characters other than
\* white space, '=', '>' and '/' that ends before e and the spaces before it
NameBefore(s, e) ==
    LET ends == {b \in 1..(e - 1) :
                    ~IsSpace(Ch(s, b)) /\ \A x \in (b + 1)..(e - 1) : IsSpace(Ch(s, x))}
    IN  IF ends = {} THEN ""
        ELSE LET b == CHOOSE x \in ends : TRUE
                 from == {a \in 1..b : \A x \in a..b : IsAttrNameChar(Ch(s, x))}
             IN  IF from = {} THEN ""
                 ELSE SubSeq(s, CHOOSE a \in from : \A y \in from : a <= y, b)

\* after the '=' at e: an optional opening quote and no quote after it
NoClosingQuoteAfter(s, e) ==
    LET quotes == {q \in (e + 1)..Len(s) : IsQuote(Ch(s, q))}
    IN  \/ quotes = {}
        \/ /\ Cardinality(quotes) = 1
           /\ \A q \in quotes : \A x \in (e + 1)..(q - 1) : IsSpace(Ch(s, x))

\* the '=' signs of s that open an assignment which is still in progress
InProgress(s) ==
    {e \in 1..Len(s) :
        Ch(s, e) = "=" /\ NameBefore(s, e) # "" /\ NoClosingQuoteAfter(s, e)}

IsOnName(name) ==
    /\ Len(name) > 2
    /\ Ch(name, 1) \in {"o", "O"}
    /\ Ch(name, 2) \in {"n", "N"}
    /\ \A i \in 3..Len(name) : IsWordChar(Ch(name, i))

-----------------------------------------------------------------------------
(* Claims about render *)

\* the template result of the k-th render call, and its i-th substitution
Rendered(k) == calls[k].templateResult

Passed(k, i) == At(Rendered(k).subs, i)

\* the container's markup after a first render of templateResult into an
\* empty container of a fresh document
FirstRender(templateResult) ==
    LET evaluated == Evaluate([dom |-> <<NewNode("element", "div", "")>>,
                               cache |-> [site \in DOMAIN PathTemplateStrings |-> NoEntry]],
                              templateResult)
        m == render([dom |-> evaluated.dom, cache |-> <<>>, templates |-> evaluated.cache,
                     err |-> "", log |-> <<>>], templateResult, Container)
    IN  innerHTML(m.dom, Container)

\* the markup of the template before its i-th slot
RECURSIVE MarkupBefore(_, _)
MarkupBefore(site, i) ==
    IF i = 0 THEN "" ELSE MarkupBefore(site, i - 1) \o PathTemplateStrings[site][i]

\* the i-th slot of the template stands between tags, not inside one
IsTextSlot(site, i) ==
    LET before == MarkupBefore(site, i)
        Latest(c) == LET at == {j \in 1..Len(before) : Ch(before, j) = c} IN
                     IF at = {} THEN 0 ELSE CHOOSE j \in at : \A x \in at : x <= j
    IN  Latest("<") <= Latest(">")

Slots(site) == 1..(Len(PathTemplateStrings[site]) - 1)

TextSlots(site) == {i \in Slots(site) : IsTextSlot(site, i)}

\* the node ids of a snapshot
TreeIds(snapshot) == {snapshot.tree[p].id : p \in DOMAIN snapshot.tree}

\* the nodes the parts of a snapshot hold for slot i
SlotNodes(snapshot, i) ==
    IF i \in DOMAIN snapshot.parts THEN Range(snapshot.parts[i].nodes) ELSE {}

\* C1: for a template whose text slot holds a nested template result, in the
\* first slot or a later one, below the container or below an inner element,
\* render(t1, c) followed by render(t2, c) completes and leaves c with the
\* markup of a first render of t2 into an empty container.
C1_NestedUpdateEqualsFirstRender ==
    (/\ Len(calls) >= 2
     /\ \E i \in Slots(Rendered(1).site) :
            isTemplateResult(Passed(1, i)) /\ isTemplateResult(Passed(2, i)))
    => (/\ Len(calls) = 2 => thrown = ""
        /\ shown[2].innerHTML = FirstRender(Rendered(2)))

\* C2: in an update render, a text slot whose substitution is === to the one
\* of the previous call gets no write: none to its nodes, none that removes
\* them, none to its part, whatever the other slots hold.
C2_UnchangedTextSlotNotWritten ==
    LET k == Len(calls) IN
    k >= 2 =>
        \A i \in TextSlots(Rendered(k).site) :
            (/\ Len(shown[k - 1].parts) = Len(PathTemplateStrings[Rendered(k).site]) - 1
             /\ StrictEquals(Passed(k, i), Passed(k - 1, i)))
            => (/\ shown[k].parts[i] = shown[k - 1].parts[i]
                /\ \A e \in Range(domLog) :
                       /\ ~(e.part = 0 /\ e.target \in SlotNodes(shown[k - 1], i))
                       /\ ~(e.part = i /\ e.target = Container))

\* every text slot of the template held a scalar in every call so far
AllScalar ==
    \A k \in 1..Len(calls) : \A i \in TextSlots(Rendered(k).site) :
        Passed(k, i).kind \in {"string", "number"}

\* C3: for a template whose text slots all hold scalars, after any sequence of
\* renders each text slot is shown by one text node, the same node since the
\* first render, whose text is String(the latest value); the nodes of the
\* container are those of the first render.
C3_ScalarSlotsKeepTheirTextNode ==
    (calls # <<>> /\ AllScalar) =>
        /\ thrown = ""
        /\ \A k \in 1..Len(shown) :
               [p \in DOMAIN shown[k].tree |-> shown[k].tree[p].id]
                   = [p \in DOMAIN shown[1].tree |-> shown[1].tree[p].id]
        /\ \A i \in TextSlots(Rendered(1).site) :
               \E p \in DOMAIN shown[1].tree :
                   \A k \in 1..Len(shown) :
                       /\ shown[k].tree[p].node.nodeType = "text"
                       /\ shown[k].tree[p].node.data = String(Passed(k, i))

\* the event slot of the button template got a listener in every call so far,
\* and the instance has one part per slot
ListenersOnly ==
    /\ calls # <<>>
    /\ Rendered(1).site = 4
    /\ \A k \in 1..Len(calls) : EventListenerOf(Passed(k, 1)) # ""

\* the elements below the container with the given name
Elements(name) ==
    {n \in Range(TreeOrder(dom, Container)) : dom[n].nodeName = name}

C5_ArrayUpdateShowsTheNewItems ==
    (/\ Len(calls) >= 2
     /\ Rendered(1).site = 1
     /\ isArray(Passed(1, 1)) /\ isArray(Passed(2, 1))
     /\ ~SameItems(Passed(1, 1), Passed(2, 1)))
    => (/\ Len(calls) = 2 => thrown = ""
        /\ shown[2].innerHTML = FirstRender(Rendered(2))
        /\ SlotNodes(shown[1], 1) \cap TreeIds(shown[2]) = {})

\* the changes of kind of a text slot's value the claim lists
KindChange(old, new) ==
    LET IsScalar(v) == v.kind \in {"string", "number"} IN
    \/ IsScalar(old) /\ isTemplateResult(new)
    \/ isTemplateResult(old) /\ IsScalar(new)
    \/ isArray(old) /\ Len(old.subs) > 1 /\ IsScalar(new)
    \/ IsScalar(old) /\ isArray(new)

\* C6: when the value of a text slot changes kind between two renders, the
\* update completes and the slot is shown by exactly the nodes of a first
\* render of the new value, the old nodes all removed.
C6_KindChangeReplacesTheNodes ==
    (/\ Len(calls) >= 2
     /\ Rendered(1).site = 1
     /\ KindChange(Passed(1, 1), Passed(2, 1)))
    => (/\ Len(calls) = 2 => thrown = ""
        /\ shown[2].innerHTML = FirstRender(Rendered(2))
        /\ SlotNodes(shown[1], 1) \cap TreeIds(shown[2]) = {})

PlaceholderMarkers == {"text", "attr", "event"}

\* C7: after the first render no placeholder is left in the container: no
\* comment whose data is a placeholder marker, no attribute whose value is one.
C7_NoPlaceholderSurvives ==
    calls # <<>> =>
        \A p \in DOMAIN shown[1].tree :
            LET n == shown[1].tree[p].node IN
            /\ n.nodeType = "comment" =>
                   n.data \notin {"$" \o marker \o "$" : marker \in PlaceholderMarkers}
            /\ \A a \in Range(n.attributes) :
                   a.value \notin {"<!--$" \o marker \o "$-->" : marker \in PlaceholderMarkers}

-----------------------------------------------------------------------------
(* The string serializer *)

\* the host that was serialized emitted the template of its shadow root
EmitsWrapper(output) == StartsWithAt(output, 1, "<template shadowrootmode=")

\* a call of the serializer on a host, whatever the mode of its shadow root
SerializedHost == serialized.called /\ serialized.node \in DOMAIN tree.shadows

\* C14: the wrapper of a shadow host is emitted only if its shadow root is
\* serializable and either options.serializableShadowRoots is true or the
\* root is listed in options.shadowRoots; a root that is not serializable is
\* never emitted, even when it is listed.
C14_WrapperOnlyForSerializableRoots ==
    (SerializedHost /\ EmitsWrapper(serialized.output)) =>
        /\ tree.shadows[serialized.node].serializable
        /\ \/ serialized.options.serializableShadowRoots
           \/ tree.shadows[serialized.node].root \in serialized.options.shadowRoots

\* the number of places of s where p stands
Occurrences(s, p) == Cardinality({i \in 1..Len(s) : StartsWithAt(s, i, p)})

\* the flags of a shadow root in the order of the wrapper's attributes
WrapperFlags(shadow) ==
    SelectSeq(<<[name |-> "shadowrootdelegatesfocus", on |-> shadow.delegatesFocus],
                [name |-> "shadowrootserializable", on |-> shadow.serializable],
                [name |-> "shadowrootclonable", on |-> shadow.clonable]>>,
              LAMBDA flag : flag.on)

\* the open tag of the wrapper as the claim gives it
WrapperOpenTag(shadow) ==
    "<template shadowrootmode=\"" \o shadow.mode \o "\""
        \o join([k \in 1..Len(WrapperFlags(shadow)) |->
                    " " \o WrapperFlags(shadow)[k].name \o "=\"\""])
        \o ">"

\* the tree with the shadow root of host taken away
WithoutShadowOf(t, host) ==
    [t EXCEPT !.shadows = [h \in DOMAIN t.shadows \ {host} |-> t.shadows[h]]]

\* C15: when a shadow root is emitted, the output of its host is the wrapper
\* '<template shadowrootmode="M"' with the flags delegatesfocus, serializable,
\* clonable in that order, each present exactly when true, then '>', the
\* serialized shadow content and '</template>', followed by the host's light
\* children; the wrapper stands once, also when both options select the root.
C15_WrapperFormat ==
    (SerializedHost /\ EmitsWrapper(serialized.output)) =>
        /\ serialized.output =
               WrapperOpenTag(tree.shadows[serialized.node])
                   \o serializeHTMLfragment(tree, tree.shadows[serialized.node].root,
                                            serialized.options)
                   \o "</template>"
                   \o serializeHTMLfragment(WithoutShadowOf(tree, serialized.node),
                                            serialized.node, serialized.options)
        /\ Cardinality(DOMAIN tree.shadows) = 1 =>
               Occurrences(serialized.output, "<template") = 1

\* a host with all three flags, selected by both options, with shadow content
\* and a light child
C15_Witness ==
    /\ SerializedHost /\ EmitsWrapper(serialized.output)
    /\ serialized.options.serializableShadowRoots
    /\ tree.shadows[serialized.node].root \in serialized.options.shadowRoots
    /\ tree.shadows[serialized.node].delegatesFocus
    /\ tree.shadows[serialized.node].clonable
    /\ tree.dom[serialized.node].childNodes # <<>>
    /\ tree.dom[tree.shadows[serialized.node].root].childNodes # <<>>
    /\ serialized.output =
           "<template shadowrootmode=\"open\" shadowrootdelegatesfocus=\"\""
               \o " shadowrootserializable=\"\" shadowrootclonable=\"\">"
               \o "<p></p></template><p></p>"

\* the shadow root of node is emitted under options
Emitted(t, node, options) ==
    /\ IsElement(t, node)
    /\ shadowRoot(t, node) # 0
    /\ ShadowIsSerialized(t.shadows[node], options)

\* the nodes a call on node goes through: its light descendants and the
\* content of every emitted shadow root, at any depth
RECURSIVE Below(_, _, _)
Below(t, node, options) ==
    LET kids == Range(t.dom[node].childNodes)
                    \cup (IF Emitted(t, node, options)
                          THEN Range(t.dom[shadowRoot(t, node)].childNodes)
                          ELSE {})
    IN  kids \cup UNION {Below(t, k, options) : k \in kids}

\* what a nested host contributes when it is serialized as the call on it
\* at the top level with the same options serializes it
NestedAsTopLevel(t, host, options) ==
    "<" \o t.dom[host].nodeName \o ">"
        \o serializeHTMLfragment(t, host, options)
        \o "</" \o t.dom[host].nodeName \o ">"

\* C16: the options reach every recursive call unchanged: a shadow host
\* nested in the light DOM or in emitted shadow content of the serialized
\* node stands in the output exactly as a top-level call on it with the same
\* options serializes it, its wrapper included when its root qualifies.
C16_OptionsReachNestedHosts ==
    serialized.called =>
        \A host \in Below(tree, serialized.node, serialized.options)
                        \cap DOMAIN tree.shadows :
            Occurrences(serialized.output,
                        NestedAsTopLevel(tree, host, serialized.options)) >= 1

\* a host inside the emitted shadow content of the serialized host, emitting
\* its own wrapper there
C16_Witness ==
    /\ serialized.called
    /\ \E host \in Below(tree, serialized.node, serialized.options)
                       \cap DOMAIN tree.shadows :
           /\ Emitted(tree, host, serialized.options)
           /\ Emitted(tree, serialized.node, serialized.options)
           /\ tree.dom[host].parentNode = shadowRoot(tree, serialized.node)
    /\ serialized.output =
           "<template shadowrootmode=\"open\" shadowrootserializable=\"\">"
               \o "<open-element>"
               \o "<template shadowrootmode=\"open\" shadowrootserializable=\"\">"
               \o "</template></open-element></template>"

\* every character c of s replaced by map[c] where map has it, in one pass
RECURSIVE MapChars(_, _)
MapChars(s, map) ==
    IF s = "" THEN ""
    ELSE (IF Ch(s, 1) \in DOMAIN map THEN map[Ch(s, 1)] ELSE Ch(s, 1))
             \o MapChars(Tail(s), map)

\* the text of a text node as the claim gives it for a parent element
ClaimedText(parentTag, data) ==
    CASE parentTag \in rawTextElements -> data
      [] parentTag \in {"textarea", "title"} ->
             MapChars(data, ("&" :> "&amp;") @@ ("<" :> "&lt;"))
      [] OTHER ->
             MapChars(data, ("&" :> "&amp;") @@ (NBSP :> "&nbsp;")
                                @@ ("<" :> "&lt;") @@ (">" :> "&gt;"))

\* a child of the container as the claim gives it: a text node, or an element
\* with at most one text node in it
ClaimedTextChild(t, n) ==
    IF t.dom[n].nodeType = "text" THEN ClaimedText(t.dom[t.dom[n].parentNode].nodeName, t.dom[n].data)
    ELSE "<" \o t.dom[n].nodeName \o ">"
             \o join([k \in 1..Len(t.dom[n].childNodes) |->
                         ClaimedText(t.dom[n].nodeName, t.dom[t.dom[n].childNodes[k]].data)])
             \o "</" \o t.dom[n].nodeName \o ">"

\* C17: a text node is serialized by its immediate parent: verbatim under a
\* raw-text element; with only & and < escaped under textarea and title;
\* otherwise with & -> &amp;, U+00A0 -> &nbsp;, < -> &lt;, > -> &gt;, the
\* ampersand first so that the entities themselves are not escaped again.
C17_TextEscapedByParent ==
    serialized.called =>
        serialized.output =
            join([k \in 1..Len(tree.dom[1].childNodes) |->
                     ClaimedTextChild(tree, tree.dom[1].childNodes[k])])

\* an attribute as the claim gives it
ClaimedAttribute(attr) ==
    " " \o attr.name \o "=\""
        \o MapChars(attr.value, ("&" :> "&amp;") @@ ("\"" :> "&quot;") @@ ("<" :> "&lt;"))
        \o "\""

\* the elements nodes, each with its attributes and its element children
RECURSIVE ClaimedElements(_, _)
ClaimedElements(t, nodes) ==
    join([k \in 1..Len(nodes) |->
             "<" \o t.dom[nodes[k]].nodeName
                 \o join([a \in 1..Len(t.dom[nodes[k]].attributes) |->
                             ClaimedAttribute(t.dom[nodes[k]].attributes[a])])
                 \o ">"
                 \o ClaimedElements(t, t.dom[nodes[k]].childNodes)
                 \o "</" \o t.dom[nodes[k]].nodeName \o ">"])

\* C18: the attributes of an element are emitted in order as ' name="value"',
\* the value with & -> &amp;, " -> &quot;, < -> &lt; (the ampersand first)
\* and everything else, > and ' included, unchanged; so no raw double quote
\* and no raw < stands inside an emitted value.
C18_AttributesEscaped ==
    serialized.called =>
        /\ serialized.output = ClaimedElements(tree, tree.dom[1].childNodes)
        /\ Occurrences(serialized.output, "\"") = 2 * AttributeCount(tree)
        /\ Occurrences(serialized.output, "<") = 2 * (Len(tree.dom) - 1)

\* an element with two attributes whose values hold &, <, > and '
C18_Witness ==
    /\ serialized.called
    /\ \E element \in ElementNodes(tree) :
           tree.dom[element].attributes =
               <<[name |-> "id", value |-> "&<"], [name |-> "title", value |-> ">'"]>>
    /\ serialized.output = "<p id=\"&amp;&lt;\" title=\">'\"></p>"

\* the child nodes as the claim gives them: a void element as its open tag
\* alone, an obsolete element as nothing, any other element with its children
RECURSIVE ClaimedChildren(_, _)
ClaimedChildren(t, nodes) ==
    join([k \in 1..Len(nodes) |->
             CASE t.dom[nodes[k]].nodeType = "text" -> t.dom[nodes[k]].data
               [] t.dom[nodes[k]].nodeName \in obsoleteElements -> ""
               [] t.dom[nodes[k]].nodeName \in voidElements ->
                      "<" \o t.dom[nodes[k]].nodeName
                          \o join([a \in 1..Len(t.dom[nodes[k]].attributes) |->
                                      ClaimedAttribute(t.dom[nodes[k]].attributes[a])])
                          \o ">"
               [] OTHER ->
                      "<" \o t.dom[nodes[k]].nodeName
                          \o join([a \in 1..Len(t.dom[nodes[k]].attributes) |->
                                      ClaimedAttribute(t.dom[nodes[k]].attributes[a])])
                          \o ">"
                          \o ClaimedChildren(t, t.dom[nodes[k]].childNodes)
                          \o "</" \o t.dom[nodes[k]].nodeName \o ">"])

\* C19: a void child element is serialized as its open tag with its
\* attributes, none of its children and no close tag; an obsolete child
\* element (basefont, bgsound, frame, keygen, param) contributes the empty
\* string.
C19_VoidAndObsoleteChildren ==
    (/\ serialized.called
     /\ tree.dom[serialized.node].nodeName \notin voidElements \cup obsoleteElements)
    => serialized.output = ClaimedChildren(tree, tree.dom[serialized.node].childNodes)

-----------------------------------------------------------------------------
(* renderToString *)

\* the call sites whose template has an event slot
EventSites == 1..5

\* the descriptors of a call site
SitePartMeta(site) == createTemplateCacheEntry(StringTemplateStrings[site]).partMeta

\* a chunk of the literal without the attribute name, the equals sign and the
\* quote that end it, and without the white space before them
WithoutOpenAttribute(chunk) ==
    TrimEnd(SubSeq(chunk, 1,
                   CHOOSE p \in 0..Len(chunk) :
                       /\ p = 0 \/ IsSpace(Ch(chunk, p))
                       /\ \A q \in (p + 1)..Len(chunk) : ~IsSpace(Ch(chunk, q))))

\* a chunk without the quote that closes the attribute before it
WithoutCloseQuote(chunk) ==
    IF chunk # "" /\ IsQuote(Ch(chunk, 1)) THEN Tail(chunk) ELSE chunk

\* the markup the claim describes: every other slot filled with its value as
\* a string, every event attribute taken out with the white space before it
ExpectedMarkup(site, substitutions) ==
    join([k \in 1..(2 * Len(StringTemplateStrings[site]) - 1) |->
             IF k % 2 = 0
             THEN (IF SitePartMeta(site)[k \div 2].type = "event" THEN ""
                   ELSE String(substitutions[k \div 2]))
             ELSE LET n == (k + 1) \div 2
                      cut == IF n > 1 /\ SitePartMeta(site)[n - 1].type = "event"
                             THEN WithoutCloseQuote(StringTemplateStrings[site][n])
                             ELSE StringTemplateStrings[site][n]
                  IN  IF n <= Len(SitePartMeta(site)) /\ SitePartMeta(site)[n].type = "event"
                      THEN WithoutOpenAttribute(cut)
                      ELSE cut])

\* the serialization of markup parsed as a fragment
FragmentOutput(markup) ==
    serializeHTMLfragment([dom |-> ParseFragment(markup), shadows |-> <<>>], 1, NoOptions)

\* no value of the call holds a dollar sign
DollarFree(substitutions) ==
    \A k \in 1..Len(substitutions) :
        substitutions[k].kind \in {"string", "number"} =>
            ~includes(substitutions[k].s, "$")

\* C11: renderToString removes every event slot completely: the on<event>
\* attribute that carries the placeholder and the white space before it are
\* absent from the output, and nothing else is removed or altered, wherever
\* the event attribute stands in the markup.
C11_EventSlotsRemoved ==
    (/\ stringRendered.called
     /\ stringRendered.site \in EventSites
     /\ DollarFree(stringRendered.substitutions))
    => stringRendered.output =
           FragmentOutput(ExpectedMarkup(stringRendered.site, stringRendered.substitutions))

\* the call sites whose slots are text and attribute slots only
TextSites == {6, 7}

\* the markup of a template result with every slot filled: a scalar as a
\* string, a nested template result as its own markup filled with its own
\* substitutions
RECURSIVE Resolved(_)
Resolved(templateValue) ==
    join([k \in 1..(2 * Len(StringTemplateStrings[templateValue.site]) - 1) |->
             IF k % 2 = 1 THEN StringTemplateStrings[templateValue.site][(k + 1) \div 2]
             ELSE IF isTemplateResult(templateValue.subs[k \div 2])
             THEN Resolved(templateValue.subs[k \div 2])
             ELSE String(templateValue.subs[k \div 2])])

\* no value of the call, nested ones included, holds a dollar sign
RECURSIVE DollarFreeDeep(_)
DollarFreeDeep(substitutions) ==
    \A k \in 1..Len(substitutions) :
        IF isTemplateResult(substitutions[k]) THEN DollarFreeDeep(substitutions[k].subs)
        ELSE ~includes(substitutions[k].s, "$")

\* C12: a nested template result at any depth is interpolated with its own
\* substitutions and placed at the outer slot that holds it, and every outer
\* slot receives the outer value of its own index, although inner and outer
\* templates use the same token names; for text and attribute slots holding
\* scalars or nested template results no placeholder token remains in the
\* output.
C12_NestedResultsInterpolated ==
    (stringRendered.called /\ stringRendered.site \in TextSites) =>
        /\ stringRendered.output =
               FragmentOutput(Resolved(TemplateValue(stringRendered.site,
                                                     stringRendered.substitutions)))
        /\ ~includes(stringRendered.output, "$text-")
        /\ ~includes(stringRendered.output, "$attr-")

\* the index of the first element of the markup: after leading white space
\* and, if one stands there, a DOCTYPE declaration and the white space after it
FirstElementAt(s) ==
    IF IsDoctypeAt(s, SkipSpaces(s, 1)) THEN SkipSpaces(s, AfterTag(s, SkipSpaces(s, 1)))
    ELSE SkipSpaces(s, 1)

\* the markup is an HTML document: its first element is <html
IsHtmlDocument(s) ==
    /\ FirstElementAt(s) + 5 <= Len(s)
    /\ toLowerCase(SubSeq(s, FirstElementAt(s), FirstElementAt(s) + 4)) = "<html"
    /\ Ch(s, FirstElementAt(s) + 5) \in SpaceChars \cup {">"}

\* C13: renderToString parses the interpolated markup as a full document
\* exactly when the markup is an HTML document (its first element is <html,
\* optionally after white space and a DOCTYPE on the same or an earlier
\* line), and then the output holds the doctype followed by the html element
\* with its substituted attributes; any other markup is parsed as a fragment,
\* also when '<html' stands at the start of a later line inside other content.
C13_DocumentExactlyForHtmlMarkup ==
    stringRendered.called =>
        /\ stringRendered.parsedAs = "document" <=> IsHtmlDocument(stringRendered.templateContent)
        /\ IsHtmlDocument(stringRendered.templateContent) =>
               StartsWithAt(stringRendered.output, 1,
                            (IF IsDoctypeAt(stringRendered.templateContent, 1)
                             THEN "<!DOCTYPE html" ELSE "<html"))
        /\ IsHtmlDocument(stringRendered.templateContent) =>
               includes(stringRendered.output,
                        "<html lang=\"" \o String(stringRendered.substitutions[1]) \o "\">")

\* the declaration at the start of the output, up to and including its '>'
OutputDoctype(output) == SubSeq(output, 1, ScanTo(output, 1, {">"}))

\* C20: a document-type node is serialized as '<!DOCTYPE name>' when its
\* public and system identifiers are empty, and with the identifiers
\* appended after the name when they are present; so a document template
\* with a custom DOCTYPE, which renderToString reconstructs on the parsed
\* document, keeps those identifiers in the output of renderToString.
C20_DoctypeKeepsIdentifiers ==
    (/\ stringRendered.called
     /\ stringRendered.parsedAs = "document"
     /\ docTypematch(stringRendered.templateContent).matched)
    => /\ StartsWithAt(stringRendered.output, 1,
                       "<!DOCTYPE " \o docTypematch(stringRendered.templateContent).name)
       /\ (/\ docTypematch(stringRendered.templateContent).publicId = ""
           /\ docTypematch(stringRendered.templateContent).systemId = "")
          => OutputDoctype(stringRendered.output) =
                 "<!DOCTYPE " \o docTypematch(stringRendered.templateContent).name \o ">"
       /\ includes(OutputDoctype(stringRendered.output),
                   docTypematch(stringRendered.templateContent).publicId)
       /\ includes(OutputDoctype(stringRendered.output),
                   docTypematch(stringRendered.templateContent).systemId)

-----------------------------------------------------------------------------
(* Purity of the serializer *)

-----------------------------------------------------------------------------
(* Claims about the parts of a Node Instance *)

\* the part descriptors of the template rendered into the container
Descriptors == pathTemplateCache[Rendered(1).site].partMeta

\* the parts of the container's Node Instance
Parts == nodeInstanceCache[Container].parts

\* C23: after the first render the container's Node Instance holds exactly
\* one part per part descriptor, in descriptor order and of the same kind,
\* whatever the values are; hence an event slot has the listener of the
\* latest call on its element whenever that call supplied one, also when the
\* first call supplied none.
C23_OnePartPerDescriptor ==
    (calls # <<>> /\ thrown = "" /\ Container \in DOMAIN nodeInstanceCache) =>
        /\ Len(Parts) = Len(Descriptors)
        /\ \A i \in 1..Len(Parts) : Parts[i].type = Descriptors[i].type
        /\ \A i \in 1..Len(Descriptors) :
               (Descriptors[i].type = "event" /\ EventListenerOf(Passed(Len(calls), i)) # "") =>
                   \E n \in Elements("button") :
                       <<Descriptors[i].event, EventListenerOf(Passed(Len(calls), i))>>
                           \in dom[n].listeners

\* the latest call passed value to the single slot of <p>${}</p>, the call
\* before it passed the empty array
AfterEmptyArray(value) ==
    /\ Len(calls) >= 2
    /\ Rendered(1).site = 1
    /\ Passed(Len(calls) - 1, 1) = Fresh(ArrayValue(<<>>), <<Len(calls) - 1, 1>>)
    /\ Passed(Len(calls), 1) = Fresh(value, <<Len(calls), 1>>)

\* C28: a text slot that holds the empty array owns no node; a later render of
\* the same template with a non-empty array or a scalar in that slot ends
\* without an exception and the container shows the new value.
C28_NoThrowAfterEmptyArray ==
    \A value \in (Lists \ {ArrayValue(<<>>)}) \cup Scalars :
        AfterEmptyArray(value) =>
            /\ thrown = ""
            /\ Last(shown).innerHTML = FirstRender(Rendered(Len(calls)))

-----------------------------------------------------------------------------
(* Claims about slots with siblings *)

\* the node with the given id as a snapshot shows it
NodeIn(snapshot, id) ==
    (CHOOSE e \in Range(snapshot.tree) : e.id = id).node

\* the nodes the first slot owns in the k-th snapshot
Owned(k) == shown[k].parts[1].nodes

\* the children of the first slot's parent before the k-th call, with the
\* nodes the slot owned replaced by nodes
Spliced(k, nodes) ==
    LET parent == NodeIn(shown[k - 1], Owned(k - 1)[1]).parentNode
        before == NodeIn(shown[k - 1], parent).childNodes
        at == IndexIn(before, Owned(k - 1)[1])
    IN  [parent |-> parent,
         childNodes |-> SubSeq(before, 1, at - 1) \o nodes
                            \o SubSeq(before, at + Len(Owned(k - 1)), Len(before))]

\* C24: an array update of a text slot replaces only the nodes the previous
\* render produced for the slot: the other children of the parent (static
\* elements and text, the nodes of other slots) are the same nodes at the
\* same places around the slot's new nodes.
C24_ArrayUpdateKeepsSiblings ==
    \A k \in 2..Len(shown) :
        (/\ isArray(Passed(k, 1))
         /\ Owned(k - 1) # <<>>
         /\ Range(Owned(k - 1)) \subseteq TreeIds(shown[k - 1])
         /\ k = Len(calls) => thrown = "") =>
            /\ Spliced(k, Owned(k)).parent \in TreeIds(shown[k])
            /\ NodeIn(shown[k], Spliced(k, Owned(k)).parent).childNodes
                   = Spliced(k, Owned(k)).childNodes

\* the markup a value stands for at a text slot, and the markup of a template
\* result: its static strings with that of each value at the slot between them
RECURSIVE ValueMarkup(_)
ValueMarkup(v) ==
    IF isTemplateResult(v)
    THEN join([i \in 1..Len(PathTemplateStrings[v.site]) |->
                  PathTemplateStrings[v.site][i]
                      \o (IF i <= Len(v.subs) THEN ValueMarkup(v.subs[i]) ELSE "")])
    ELSE IF isArray(v)
    THEN join([i \in 1..Len(v.subs) |-> ValueMarkup(v.subs[i])])
    ELSE EscapeText(String(v))

\* C25: in a first render every slot's value stands at the slot's own
\* placeholder, also when an earlier text slot was replaced by several nodes
\* or by none (a nested template with two top-level nodes, an array of any
\* length): the placeholders are located in the clone before any of them is
\* replaced.
C25_FirstRenderFillsEverySlotInPlace ==
    shown # <<>> => shown[1].innerHTML = ValueMarkup(Rendered(1))

\* a first render whose first slot took the two top-level nodes of a nested
\* template, with a scalar at the slot in the element after it
C25_Witness ==
    /\ Len(calls) = 1
    /\ Rendered(1).site = 12
    /\ Passed(1, 1) = Fresh(Pair("1"), <<1, 1>>)
    /\ Passed(1, 2) = Value("string", "a")
    /\ shown[1].innerHTML = "<div><i>1</i><u></u><b>a</b></div>"

-----------------------------------------------------------------------------
(* Claims about the interpolation *)

\* C27: interpolate inserts a substitution character for character at its
\* slot: the interpolated markup of a template of text and attribute slots is
\* its static strings with, at each slot, the value as a string (the markup
\* of a nested template result), also when the value holds $$, $& or $'.
C27_SubstitutionsInsertedVerbatim ==
    (stringRendered.called /\ stringRendered.site \in TextSites) =>
        stringRendered.templateContent =
            Resolved(TemplateValue(stringRendered.site, stringRendered.substitutions))

-----------------------------------------------------------------------------
(* The string path against the DOM path *)

\* the call site of render with the template literal of a call site of
\* renderToString
PathSiteOf(site) ==
    CHOOSE pathSite \in DOMAIN PathTemplateStrings :
        PathTemplateStrings[pathSite] = StringTemplateStrings[site]

\* the DOM path: serializeHTMLfragment of a new container after
\* render(html`...`, container)
DomPath(templateResult) ==
    LET evaluated == Evaluate([dom |-> <<NewNode("element", "div", "")>>,
                               cache |-> [site \in DOMAIN PathTemplateStrings |-> NoEntry]],
                              templateResult)
        m == render([dom |-> evaluated.dom, cache |-> <<>>, templates |-> evaluated.cache,
                     err |-> "", log |-> <<>>], templateResult, Container)
    IN  serializeHTMLfragment([dom |-> m.dom, shadows |-> <<>>], Container, NoOptions)

\* C26: for a template whose text slot holds a scalar or an array of
\* scalars, renderToString returns what serializeHTMLfragment gives for a
\* container after render: a scalar with <, > or & is escaped text in both,
\* an array is its items one after another in both.
C26_StringPathEqualsDomPath ==
    (/\ stringRendered.called
     /\ stringRendered.site = 7
     /\ ~isTemplateResult(stringRendered.substitutions[1])) =>
        stringRendered.output =
            DomPath(Fresh(TemplateValue(PathSiteOf(7), stringRendered.substitutions), <<1>>))

-----------------------------------------------------------------------------
(* Claims about renderToString with options *)

\* what the call returns when it resolves custom elements against registry
ResolvedAgainst(registry, site, options) ==
    renderToStringWithOptions(
        ElementTemplateResult(site),
        RenderToStringOptions(TRUE, registry, options.renderer,
                              options.serializeShadowRootAdoptedStyleSheets),
        {}).output

\* C29: a call with options.customElements = R leaves self.customElements = R
\* on every return path, with and without options.renderer; a call without
\* the option leaves self.customElements as it was and resolves the custom
\* elements against it, which is the registry R of the last call that
\* supplied one.
C29_RegistryReplacedAndNotRestored ==
    [][elementRendered'.count # elementRendered.count =>
           /\ customElements' = elementRendered'.supplied
           /\ elementRendered'.options.hasCustomElements =>
                  customElements' = elementRendered'.options.customElements
           /\ ~elementRendered'.options.hasCustomElements =>
                  /\ customElements' = customElements
                  /\ elementRendered'.output =
                         ResolvedAgainst(elementRendered.supplied, elementRendered'.site,
                                         elementRendered'.options)]_vars

\* a call without options.customElements after a call that supplied the
\* registry of the definition with two stylesheets: its output holds the
\* stylesheets of that definition
C29_Witness ==
    /\ elementRendered.count >= 2
    /\ ~elementRendered.options.hasCustomElements
    /\ ~elementRendered.options.renderer
    /\ elementRendered.options.serializeShadowRootAdoptedStyleSheets
    /\ elementRendered.site = 1
    /\ customElements = {Definition("x-el", TRUE, <<"a{}", "b{}">>)}
    /\ \E i \in 1..Len(elementRendered.output) :
           StartsWithAt(elementRendered.output, i, "<style>b{}</style>")

\* the definition the last call resolved x-el with, as a set (none or one)
HostDefinitions == get(customElements, "x-el")

\* the last call returned what the serializer gave, with the stylesheets
\* asked for
InlinedStyles ==
    /\ elementRendered.count > 0
    /\ ~elementRendered.options.renderer
    /\ elementRendered.options.serializeShadowRootAdoptedStyleSheets

\* the positions of a string
Positions(s) == 1..Len(s)

\* p stands somewhere in s
Occurs(s, p) == \E i \in Positions(s) : StartsWithAt(s, i, p)

\* the <style> element of a stylesheet
StyleElement(sheet) == "<style>" \o sheet \o "</style>"

\* the <style> elements of the stylesheets, in the stylesheets' order
RECURSIVE StyleElements(_)
StyleElements(sheets) ==
    IF sheets = <<>> THEN ""
    ELSE StyleElement(Head(sheets)) \o StyleElements(Tail(sheets))

\* C22: with serializeShadowRootAdoptedStyleSheets the output holds, for the
\* shadow host at any depth of the fragment or of the document, a <style>
\* element per adopted stylesheet with the sheet's rules, inside the
\* template that stands for the shadow root and before the content the
\* shadow root had.
C22_StylesInlinedAtAnyDepth ==
    InlinedStyles =>
        \A definition \in HostDefinitions :
            \A k \in 1..Len(definition.adoptedStyleSheets) :
                \E i, j \in Positions(elementRendered.output) :
                    /\ i < j
                    /\ StartsWithAt(elementRendered.output, i,
                                    StyleElement(definition.adoptedStyleSheets[k]))
                    /\ StartsWithAt(elementRendered.output, j, "<slot></slot></template>")
                    /\ Occurs(SubSeq(elementRendered.output, 1, i - 1), "<template")

\* C30: the <style> elements of the adopted stylesheets s1..sn stand at the
\* start of the shadow content in the order s1..sn.
C30_StylesInSheetOrder ==
    (InlinedStyles /\ Occurs(elementRendered.output, "<style>")) =>
        \A definition \in HostDefinitions :
            Occurs(elementRendered.output,
                   ">" \o StyleElements(definition.adoptedStyleSheets)
                       \o "<slot></slot></template>")

=============================================================================
